---------------------------- MODULE Spec2Model ----------------------------
(***************************************************************************)
(* Model of the NSE bhavcopy ingestion repository:                         *)
(*   - the acquisition pipeline  (nse_download/download_nse_data_headless) *)
(*   - the conversion pipeline   (gcp_upload/create_local_structure)       *)
(*   - the holiday oracle        (holidays/indian_holidays)                *)
(* One behaviour of the model follows one program (prog), chosen in Init.  *)
(***************************************************************************)
EXTENDS Integers, Sequences, FiniteSets, TLC

VARIABLES
    prog,              \* which program this behaviour runs: "acq" or "conv"
    run,               \* number of the pipeline run (1 = first)
    \* ---- acquisition: NSEBhavcopyDownloader / StatusLogger / environment
    pc,                \* position in download_range
    start_date,        \* download_range argument
    end_date,          \* download_range argument
    existing_dir,      \* self.existing_dir is set (truthy)
    existing_fs,       \* csv paths present under existing_dir
    out_fs,            \* files under output_dir: path -> content
    current_date,      \* loop variable of download_range
    success_count,     \* local counter of download_range
    statuses,          \* StatusLogger.statuses
    failed_dates,      \* self.failed_dates
    skipped_dates,     \* self.skipped_dates
    last_cookie_time,  \* self._last_cookie_time
    now,               \* time.time()
    netlog,            \* requests sent through self.session in this process
    cookie_times,      \* time.time() at each call of _get_cookie in this process
    last_pause,        \* seconds the last iteration slept at line 507
    last_response,     \* the answer to the report request of the last iteration
    log_fs,            \* files under BASE_LOG_DIR: name -> content
    log_writes,        \* the writers of StatusLogger called, in order
    summary,           \* the three counts logged by the summary
    call_base,         \* Len(statuses) when the current download_range began
    prior_success,     \* dates recorded "success" by an earlier download_range
    \* ---- conversion: _build_daily_parquet / ProcessingTracker / environment
    conv_pc,           \* position in _build_daily_parquet
    force,             \* the force argument
    raw_root_files,    \* the files under raw_root that match the pattern
    input_csv_files,   \* list(raw_root_path.rglob(pattern))
    conv_idx,          \* index of the loop over input_csv_files
    records,           \* ProcessingTracker.records
    stats,             \* ProcessingTracker.stats
    raw_fs,            \* files under output_root/raw/cm: path -> content
    curated_fs,        \* files under output_root/curated/cm: path -> content
    out_dirs,          \* directories made under output_root
    status_csv,        \* the status report of this process, when written
    conv_summary,      \* total logged by print_summary
    prev_records,      \* the records of the previous run (as a set)
    prev_curated,      \* curated_fs at the end of the previous run
    prev_force,        \* force of the previous run
    last_ops,          \* what the last iteration of the loop called: copy2
                       \* (and copy2_raised when it raised), read_csv,
                       \* to_parquet
    \* ---- holiday oracle: the HolidayManager and the files it reads
    manager,           \* _using_recurring and _loaded_holidays
    prev_manager,      \* the manager before the last load
    never_loaded,      \* _loaded_holidays is None
    holiday_files,     \* the holiday files: name -> file
    last_load,         \* the file of the last load_holidays, as it was read
    last_query,        \* the last is_public_holiday call and its answer
    hol_op,            \* the last operation on the oracle
    \* ---- _get_file_datetime_from_name called on a file name
    name_pc,           \* "idle", "call" (about to be called) or "returned"
    filepath_stem,     \* filepath.stem, a sequence of characters
    returned_date,     \* what the call returned (NoDateValue for None)
    \* ---- main() of the acquisition program
    main_pc,           \* "idle", "start" (about to run), "returned" (it gave
                       \* up before any work) or "running"
    cli_args,          \* --start-date and --end-date, sequences of characters
    today,             \* the date of datetime.now()
    made               \* what main created: "output_dir", "downloader"

acqVars == <<pc, start_date, end_date, existing_dir, existing_fs, out_fs,
             current_date, success_count, statuses, failed_dates,
             skipped_dates, last_cookie_time, now, netlog, cookie_times,
             last_pause, last_response, log_fs, log_writes, summary,
             call_base, prior_success>>

convVars == <<conv_pc, force, raw_root_files, input_csv_files, conv_idx,
              records, stats, raw_fs, curated_fs, out_dirs, status_csv,
              conv_summary, prev_records, prev_curated, prev_force, last_ops>>

holVars == <<manager, prev_manager, never_loaded, holiday_files, last_load, last_query, hol_op>>

nameVars == <<name_pc, filepath_stem, returned_date>>
mainVars == <<main_pc, cli_args, today, made>>

vars == <<prog, run, acqVars, convVars, holVars, nameVars, mainVars>>

(***************************************************************************)
(* Bounds of the model.                                                    *)
(***************************************************************************)
MaxSpan == 3        \* calendar days in the window the ranges are drawn from
MaxRuns == 2        \* pipeline runs over the same filesystem
MaxPre == 1         \* files already present in the existing directory
MaxReuse == 2       \* ledger rows a reused downloader may reach
MaxFiles == 2       \* input files of a conversion run
MaxConvWork == 4    \* files gone through over the conversion runs of a behaviour
StartTime == 1000   \* time.time() when a process starts (any value > 300)

(***************************************************************************)
(* datetime: proleptic Gregorian calendar as CPython's datetime computes.  *)
(***************************************************************************)
IsLeap(y) == (y % 4 = 0) /\ ((y % 100 # 0) \/ (y % 400 = 0))

DaysInMonth(y, m) ==
    IF m = 2 THEN (IF IsLeap(y) THEN 29 ELSE 28)
    ELSE IF m \in {4, 6, 9, 11} THEN 30 ELSE 31

DaysBeforeYear(y) ==
    LET p == y - 1 IN p * 365 + (p \div 4) - (p \div 100) + (p \div 400)

RECURSIVE DaysBeforeMonth(_, _)
DaysBeforeMonth(y, m) ==
    IF m = 1 THEN 0 ELSE DaysBeforeMonth(y, m - 1) + DaysInMonth(y, m - 1)

ToOrdinal(d) == DaysBeforeYear(d.year) + DaysBeforeMonth(d.year, d.month) + d.day

\* date.weekday(): Monday = 0 ... Sunday = 6
Weekday(d) == (ToOrdinal(d) + 6) % 7

\* date + timedelta(days=1)
NextDay(d) ==
    IF d.day < DaysInMonth(d.year, d.month)
        THEN [d EXCEPT !.day = d.day + 1]
    ELSE IF d.month < 12
        THEN [year |-> d.year, month |-> d.month + 1, day |-> 1]
    ELSE [year |-> d.year + 1, month |-> 1, day |-> 1]

RECURSIVE AddDays(_, _)
AddDays(d, n) == IF n = 0 THEN d ELSE AddDays(NextDay(d), n - 1)

DateLE(a, b) == ToOrdinal(a) <= ToOrdinal(b)

MonthAbbr(m) ==
    <<"Jan", "Feb", "Mar", "Apr", "May", "Jun",
      "Jul", "Aug", "Sep", "Oct", "Nov", "Dec">>[m]

\* strftime("%d-%b-%Y"), "%Y%m", "%d%m%Y", "%Y%m%d": fixed-width digit fields
FormatDateStr(d) == <<d.day, MonthAbbr(d.month), d.year>>
FormatYm(d) == d.year * 100 + d.month
FormatDmy(d) == d.day * 1000000 + d.month * 10000 + d.year
FormatYmd(d) == d.year * 10000 + d.month * 100 + d.day


(***************************************************************************)
(* Class constants of NSEBhavcopyDownloader.                               *)
(***************************************************************************)
HTTP_STATUS_NOT_FOUND == 404
HTTP_STATUS_OK == 200
WEEKEND_START == 5
COOKIE_REFRESH_INTERVAL == 300

(***************************************************************************)
(* The environment of one date's processing: what the remote endpoint      *)
(* answers to the report request and to the follow-up archive request,     *)
(* and how long the processing (transfer plus the fixed pauses) takes.     *)
(***************************************************************************)
ZipBodies == {"zip_ok", "zip_nocsv", "zip_bad", "zip_enc"}

\* entries of a JSON payload: a dict without "file", a dict whose "file" is
\* not an archive, two dicts whose "file" ends in .zip, and a non-dict entry
NoFileItem == [kind |-> "dict", has_file |-> FALSE, stem |-> "", ext |-> ""]
CsvItem == [kind |-> "dict", has_file |-> TRUE, stem |-> "/a", ext |-> ".csv"]
ZipItemA == [kind |-> "dict", has_file |-> TRUE, stem |-> "/zipA", ext |-> ".zip"]
ZipItemB == [kind |-> "dict", has_file |-> TRUE, stem |-> "/zipB", ext |-> ".zip"]
ScalarItem == [kind |-> "scalar", has_file |-> FALSE, stem |-> "", ext |-> ""]

JsonPayloads ==
    { <<>>,
      <<NoFileItem, CsvItem>>,
      <<CsvItem, ZipItemA, ZipItemB>>,
      <<ScalarItem>> }

OtherHttpCodes == {500}

Response1(exc, status, ctype_zip, body, json) ==
    [exc |-> exc, status |-> status, ctype_zip |-> ctype_zip, body |-> body, json |-> json]

\* no report request was sent
NoResponse == Response1(FALSE, 0, FALSE, "", <<>>)

Response2(exc, status, body) == [exc |-> exc, status |-> status, body |-> body]

\* answers to the report request: a transport error, 404, another HTTP
\* error, archives (declared or only recognisable by their magic bytes),
\* bytes that are neither archive nor JSON, and JSON payloads
FirstResponses ==
    {Response1(TRUE, 0, FALSE, "", <<>>)}
    \cup {Response1(FALSE, s, FALSE, "", <<>>) : s \in {HTTP_STATUS_NOT_FOUND} \cup OtherHttpCodes}
    \cup {Response1(FALSE, HTTP_STATUS_OK, FALSE, b, <<>>) : b \in ZipBodies \cup {"garbage"}}
    \cup {Response1(FALSE, HTTP_STATUS_OK, TRUE, b, <<>>) : b \in {"zip_ok", "garbage"}}
    \cup {Response1(FALSE, HTTP_STATUS_OK, FALSE, "json", j) : j \in JsonPayloads}

\* answers to the follow-up archive request
SecondResponses ==
    {Response2(TRUE, 0, "")}
    \cup {Response2(FALSE, HTTP_STATUS_NOT_FOUND, "")}
    \cup {Response2(FALSE, HTTP_STATUS_OK, b) : b \in {"zip_ok", "zip_bad"}}

\* seconds one downloaded date takes, the pauses included: short, or longer
\* than the cookie refresh interval
Delays == {3, 301}

Env(r1, r2, delay) == [r1 |-> r1, r2 |-> r2, delay |-> delay]

ShortDelay == CHOOSE d \in Delays : \A e \in Delays : d <= e

\* every answer to the report request, and every answer to the follow-up
\* request of a payload that names an archive, each taking the short time;
\* a good archive and a 404 also taking every longer time
Envs ==
    {Env(r1, Response2(FALSE, HTTP_STATUS_OK, "zip_ok"), ShortDelay) :
        r1 \in FirstResponses}
    \cup {Env(Response1(FALSE, HTTP_STATUS_OK, FALSE, "json", <<CsvItem, ZipItemA, ZipItemB>>),
              r2, ShortDelay) : r2 \in SecondResponses}
    \cup {Env(Response1(FALSE, HTTP_STATUS_OK, TRUE, "zip_ok", <<>>),
              Response2(FALSE, HTTP_STATUS_OK, "zip_ok"), d) : d \in Delays}
    \cup {Env(Response1(FALSE, HTTP_STATUS_NOT_FOUND, FALSE, "", <<>>),
              Response2(FALSE, HTTP_STATUS_OK, "zip_ok"), d) : d \in Delays}

(***************************************************************************)
(* Files: a filesystem is a function from paths to contents.               *)
(***************************************************************************)
Put(fs, path, content) ==
    [p \in (DOMAIN fs) \cup {path} |-> IF p = path THEN content ELSE fs[p]]

Remove(fs, path) == [p \in (DOMAIN fs) \ {path} |-> fs[p]]

EmptyFs == [p \in {} |-> ""]

\* month_folder / f"sec_bhavdata_full_{date.strftime('%d%m%Y')}.csv"
ExpectedCsv(date) == <<FormatYm(date), "sec_bhavdata_full", FormatDmy(date)>>
\* month_folder / f"bhavcopy_{date.strftime('%Y%m%d')}.zip"
ZipPath(date) == <<FormatYm(date), "bhavcopy", FormatYmd(date)>>

Reason(text, code) == [text |-> text, code |-> code]
NoReason == Reason("", 0)
NoDate == <<0, "", 0>>
NoPath == <<>>

\* a request sent, with the status of its answer (0: none, or of no effect)
Request(date_str, kind, target, answer) ==
    [date |-> date_str, kind |-> kind, target |-> target, answer |-> answer]

\* response.content[:2] == b"PK"
StartsWithPK(body) == body \in ZipBodies

\* fault: the loop over data keeps the last entry that names an archive
RECURSIVE LastZipFrom(_, _)
LastZipFrom(data, i) ==
    IF i < 1 THEN 0
    ELSE IF data[i].kind = "dict" /\ data[i].has_file /\ data[i].ext = ".zip" THEN i
    ELSE LastZipFrom(data, i - 1)

FirstZipLast(data) ==
    IF \E i \in 1 .. Len(data) : data[i].kind # "dict" THEN -1
    ELSE LastZipFrom(data, Len(data))

\* the loop over data: index of the first entry with a "file" ending in .zip,
\* 0 when there is none, -1 when an entry is not a dict (TypeError)
RECURSIVE FirstZipFrom(_, _)
FirstZipFrom(data, i) ==
    IF i > Len(data) THEN 0
    ELSE IF data[i].kind # "dict" THEN -1
    ELSE IF data[i].has_file /\ data[i].ext = ".zip" THEN i
    ELSE FirstZipFrom(data, i + 1)

FirstZip(data) == FirstZipFrom(data, 1)

(***************************************************************************)
(* NSEBhavcopyDownloader.download_and_extract(date), against the           *)
(* environment (r1, r2).  The result holds the return value and the     *)
(* fields and files the call leaves behind.                                *)
(***************************************************************************)
DaeResult(ret, failed, skipped, fs, net, cookie) ==
    [ret |-> ret, failed |-> failed, skipped |-> skipped,
     fs |-> fs, net |-> net, cookie |-> cookie]

\* lines 375-390 and the handlers of lines 397-411: save the archive,
\* extract it, delete it
SaveAndExtract(date, zip_content, net, cookie) ==
    LET date_str == FormatDateStr(date)
        expected_csv == ExpectedCsv(date)
        zip_path == ZipPath(date)
        Fail(reason, fs) ==
            DaeResult(FALSE,
                      Append(failed_dates, [date |-> date_str, reason |-> reason]),
                      skipped_dates, fs, net, cookie)
        saved == Put(out_fs, zip_path, zip_content)
    IN  CASE zip_content = "zip_ok" ->
                DaeResult(TRUE, failed_dates, skipped_dates,
                          Remove(Put(saved, expected_csv, "extracted"), zip_path),
                          net, cookie)
          [] zip_content = "zip_nocsv" ->
                \* the members are extracted; none of them is expected_csv
                DaeResult(TRUE, failed_dates, skipped_dates,
                          Remove(saved, zip_path), net, cookie)
          [] zip_content = "zip_enc" ->
                \* zipfile raises RuntimeError / NotImplementedError: except Exception
                Fail(Reason("exception: extract", 0), saved)
          [] OTHER ->
                \* zipfile.BadZipFile: the handler unlinks the archive
                Fail(Reason("Invalid zip file", 0), Remove(saved, zip_path))

\* fault: the skip is decided from the dates this downloader remembers
\* having skipped, not from the file on disk
OutputExistsInMemory(date) == \E i \in 1 .. Len(skipped_dates) :
                                  skipped_dates[i] = FormatDateStr(date)

\* line 284: expected_csv.exists()
OutputExists(date) == ExpectedCsv(date) \in DOMAIN out_fs

\* fault: 404 is not told apart from the other statuses
IsNotFoundNever(status) == FALSE

\* line 302: response.status_code == self.HTTP_STATUS_NOT_FOUND
IsNotFound(status) == status = HTTP_STATUS_NOT_FOUND

download_and_extract(date, r1, r2) ==
    LET date_str == FormatDateStr(date)
        refresh == (now - last_cookie_time) > COOKIE_REFRESH_INTERVAL
        net0 == IF refresh
                    THEN Append(netlog, Request(date_str, "cookie", "home", 0))
                    ELSE netlog
        cookie == IF refresh THEN now ELSE last_cookie_time
        net1 == Append(net0, Request(date_str, "report", "api", r1.status))
        Fail(reason, net) ==
            DaeResult(FALSE,
                      Append(failed_dates, [date |-> date_str, reason |-> reason]),
                      skipped_dates, out_fs, net, cookie)
        z == FirstZip(r1.json)
        net2 == Append(net1, Request(date_str, "zip", r1.json[z].stem, r2.status))
    IN  IF OutputExists(date)
        THEN DaeResult(TRUE, failed_dates, Append(skipped_dates, date_str),
                       out_fs, netlog, last_cookie_time)
        ELSE IF r1.exc
        THEN Fail(Reason("Network error", 0), net1)
        ELSE IF IsNotFound(r1.status)
        THEN Fail(Reason("No data available (404)", 0), net1)
        ELSE IF r1.status # HTTP_STATUS_OK
        THEN Fail(Reason("HTTP", r1.status), net1)
        ELSE IF r1.ctype_zip \/ StartsWithPK(r1.body)
        THEN SaveAndExtract(date, r1.body, net1, cookie)
        ELSE IF r1.body # "json"
        THEN Fail(Reason("Invalid response format (not JSON or ZIP)", 0), net1)
        ELSE IF Len(r1.json) = 0
        THEN Fail(Reason("No data in response", 0), net1)
        ELSE IF z = -1
        THEN Fail(Reason("exception: TypeError", 0), net1)
        ELSE IF z = 0
        THEN Fail(Reason("No zip file in response", 0), net1)
        ELSE IF r2.exc
        THEN Fail(Reason("Network error", 0), net2)
        ELSE IF r2.status # HTTP_STATUS_OK
        THEN Fail(Reason("Zip download HTTP", r2.status), net2)
        ELSE SaveAndExtract(date, r2.body, net2, cookie)

(***************************************************************************)
(* The calendar window the date ranges are drawn from.  It starts on       *)
(* Thursday 1 May 2025 (a weekday that is a recurring holiday) and runs    *)
(* into the weekend.                                                       *)
(***************************************************************************)
WindowStart == [year |-> 2025, month |-> 5, day |-> 1]
Window == {AddDays(WindowStart, k) : k \in 0 .. (MaxSpan - 1)}
Ranges == {r \in Window \X Window : DateLE(r[1], r[2])}

\* existing_dir / month_folder_rel / expected_name
ExistingFile(date) == <<FormatYm(date), "sec_bhavdata_full", FormatDmy(date)>>

StatusEntry(date_str, status, reason, file_path) ==
    [date |-> date_str, status |-> status, reason |-> reason, file_path |-> file_path]

\* fault: only the skips of existing files are counted as skipped
StartsWithSkippedExisting(status) == status = "skipped_existing"

\* s["status"].startswith("skipped")
StartsWithSkipped(status) == status \in {"skipped_weekend", "skipped_existing"}

CountWhere(seq, Test(_)) == Cardinality({i \in 1 .. Len(seq) : Test(seq[i])})

\* next(f["reason"] for f in self.failed_dates if f["date"] == date_str)
FirstFailure(failed, date_str) ==
    failed[CHOOSE i \in 1 .. Len(failed) :
              /\ failed[i].date = date_str
              /\ \A j \in 1 .. (i - 1) : failed[j].date # date_str]

\* fault: the failure entry of the date is never found
HasFailureNever(failed, date_str) == FALSE

HasFailure(failed, date_str) == \E i \in 1 .. Len(failed) : failed[i].date = date_str

InSeq(seq, x) == \E i \in 1 .. Len(seq) : seq[i] = x

(***************************************************************************)
(* NSEBhavcopyDownloader.__init__ followed by the call of download_range   *)
(* up to its loop: the unconditional session-cookie request.               *)
(***************************************************************************)
FreshDownloader(range) ==
    /\ start_date = range[1]
    /\ end_date = range[2]
    /\ current_date = range[1]
    /\ pc = "start"
    /\ success_count = 0
    /\ statuses = <<>>
    /\ failed_dates = <<>>
    /\ skipped_dates = <<>>
    /\ last_cookie_time = 0
    /\ now = StartTime
    /\ netlog = <<>>
    /\ cookie_times = <<>>
    /\ last_pause = 0
    /\ last_response = NoResponse
    /\ log_fs = EmptyFs
    /\ log_writes = <<>>
    /\ summary = <<>>
    /\ call_base = 0

download_range_begin ==
    /\ prog = "acq"
    /\ pc = "start"
    /\ pc' = "loop"
    /\ netlog' = Append(netlog, Request(NoDate, "cookie", "home", 0))
    /\ cookie_times' = Append(cookie_times, now)
    /\ last_pause' = 0
    /\ last_response' = NoResponse
    /\ current_date' = start_date
    /\ success_count' = 0
    /\ UNCHANGED <<prog, run, start_date, end_date, existing_dir, existing_fs,
                   out_fs, statuses, failed_dates, skipped_dates,
                   last_cookie_time, now, log_fs, log_writes, summary, call_base,
                   prior_success, convVars, holVars, nameVars, mainVars>>

(***************************************************************************)
(* One iteration of the loop of download_range (lines 439-507).            *)
(***************************************************************************)
\* fault: an off-by-one weekend test that lets Saturday through
IsWeekendAfterStart(date) == Weekday(date) > WEEKEND_START

\* current_date.weekday() >= self.WEEKEND_START
IsWeekend(date) == Weekday(date) >= WEEKEND_START

\* fault: the existing directory is never looked at
InExistingDirIgnored(date) == FALSE

\* self.existing_dir and existing_file.exists()
InExistingDir(date) == existing_dir /\ ExistingFile(date) \in existing_fs

\* lines 464-497: the status, reason and file path recorded after
\* download_and_extract returned r; "raise" when expected_csv.stat() raises
Classify(date, r) ==
    LET date_str == FormatDateStr(date) IN
    IF r.ret
    THEN IF InSeq(r.skipped, date_str)
         THEN [status |-> "skipped_existing",
               reason |-> Reason("File already exists", 0),
               file_path |-> NoPath, counted |-> 0]
         ELSE IF HasFailure(r.failed, date_str)
         THEN [status |-> "failed",
               reason |-> FirstFailure(r.failed, date_str).reason,
               file_path |-> NoPath, counted |-> 0]
         ELSE IF ExpectedCsv(date) \in DOMAIN r.fs
         THEN [status |-> "success", reason |-> NoReason,
               file_path |-> ExpectedCsv(date), counted |-> 1]
         ELSE [status |-> "raise", reason |-> NoReason,
               file_path |-> NoPath, counted |-> 1]
    ELSE [status |-> "failed",
          reason |-> IF HasFailure(r.failed, date_str)
                        THEN FirstFailure(r.failed, date_str).reason
                        ELSE Reason("Unknown error", 0),
          file_path |-> NoPath, counted |-> 0]

\* time.sleep(2)
PauseSeconds == 2

\* fault: only a success is followed by the pause
PausesAfterSuccess(status) == status = "success"

\* line 506: status in ["success", "failed"]
Pauses(status) == status \in {"success", "failed"}

SkipStep(status, reason) ==
    /\ statuses' = Append(statuses,
                          StatusEntry(FormatDateStr(current_date), status, reason, NoPath))
    /\ current_date' = NextDay(current_date)
    /\ last_pause' = 0
    /\ last_response' = NoResponse
    /\ UNCHANGED <<pc, out_fs, success_count, failed_dates, skipped_dates,
                   last_cookie_time, now, netlog, cookie_times>>

DownloadStep(r1, r2, delay) ==
    LET r == download_and_extract(current_date, r1, r2)
        c == Classify(current_date, r)
    IN  /\ failed_dates' = r.failed
        /\ skipped_dates' = r.skipped
        /\ out_fs' = r.fs
        /\ netlog' = r.net
        /\ cookie_times' = IF r.cookie # last_cookie_time
                              THEN Append(cookie_times, r.cookie)
                              ELSE cookie_times
        /\ last_cookie_time' = r.cookie
        /\ success_count' = success_count + c.counted
        /\ last_response' = IF OutputExists(current_date) THEN NoResponse ELSE r1
        /\ IF c.status = "raise"
           THEN \* FileNotFoundError leaves download_range
                /\ pc' = "aborted"
                /\ UNCHANGED <<statuses, current_date>>
                /\ now' = now + delay
                /\ last_pause' = 0
           ELSE /\ pc' = pc
                /\ statuses' = Append(statuses,
                                      StatusEntry(FormatDateStr(current_date), c.status,
                                                  c.reason, c.file_path))
                /\ current_date' = NextDay(current_date)
                /\ now' = IF Pauses(c.status) THEN now + delay ELSE now
                /\ last_pause' = IF Pauses(c.status) THEN PauseSeconds ELSE 0

\* fault: the existing directory is looked at before the weekday
StepKindExistingFirst(date) ==
    IF InExistingDir(date) THEN "existing"
    ELSE IF IsWeekend(date) THEN "weekend"
    ELSE "download"

\* lines 443-464: the order of the tests of one iteration
StepKind(date) ==
    IF IsWeekend(date) THEN "weekend"
    ELSE IF InExistingDir(date) THEN "existing"
    ELSE "download"

download_range_step ==
    /\ prog = "acq"
    /\ pc = "loop"
    /\ DateLE(current_date, end_date)
    /\ IF StepKind(current_date) = "weekend"
       THEN SkipStep("skipped_weekend", Reason("Market closed on weekends", 0))
       ELSE IF StepKind(current_date) = "existing"
       THEN SkipStep("skipped_existing",
                     Reason("File already exists in existing directory", 0))
       ELSE \E e \in Envs : DownloadStep(e.r1, e.r2, e.delay)
    /\ UNCHANGED <<prog, run, start_date, end_date, existing_dir, existing_fs,
                   log_fs, log_writes, summary, call_base, prior_success, convVars,
                   holVars, nameVars, mainVars>>

(***************************************************************************)
(* The end of download_range (lines 509-532): the status CSV, the summary  *)
(* and the failed-dates JSON.                                              *)
(***************************************************************************)
IsSkippedEntry(s) == StartsWithSkipped(s.status)
IsFailedEntry(s) == s.status = "failed"

Summary ==
    [successful |-> success_count,
     skipped |-> CountWhere(statuses, IsSkippedEntry),
     failed |-> CountWhere(statuses, IsFailedEntry)]

\* StatusLogger: the name of a log file carries the second it is written in,
\* and both writers open their file with mode "w"
write_csv(fs, second, rows) ==
    Put(fs, <<"download_status", second>>, rows)

write_failed_json(fs, second, failed) ==
    Put(fs, <<"failed_downloads", second>>, failed)

\* fault: the failed-dates JSON is written whether or not a date failed
EndOfRunWritesBoth(failed) == <<"write_csv", "write_failed_json">>

\* fault: the failed-dates JSON is written before the status CSV
EndOfRunWritesJsonFirst(failed) ==
    IF failed # <<>> THEN <<"write_failed_json", "write_csv">> ELSE <<"write_csv">>

\* lines 510 and 526-532: the writers download_range calls after its loop
EndOfRunWrites(failed) ==
    IF failed # <<>> THEN <<"write_csv", "write_failed_json">> ELSE <<"write_csv">>

download_range_end ==
    /\ prog = "acq"
    /\ pc = "loop"
    /\ ~DateLE(current_date, end_date)
    /\ pc' = "done"
    /\ summary' = <<Summary>>
    /\ LET calls == EndOfRunWrites(failed_dates)
           Write(fs, call) ==
               IF call = "write_csv"
                   THEN write_csv(fs, now, statuses)
                   ELSE write_failed_json(fs, now, failed_dates)
       IN  /\ log_fs' = IF Len(calls) > 1
                            THEN Write(Write(log_fs, calls[1]), calls[2])
                            ELSE Write(log_fs, calls[1])
           /\ log_writes' = log_writes \o calls
    /\ UNCHANGED <<prog, run, start_date, end_date, existing_dir, existing_fs,
                   out_fs, current_date, success_count, statuses, failed_dates,
                   skipped_dates, last_cookie_time, now, netlog, cookie_times,
                   last_pause, last_response, call_base,
                   prior_success, convVars, holVars, nameVars, mainVars>>

(***************************************************************************)
(* A later run of the program over the same directories: main() builds a   *)
(* new downloader and calls download_range once.                           *)
(***************************************************************************)
SuccessDates == {statuses[i].date : i \in {j \in 1 .. Len(statuses) :
                                              statuses[j].status = "success"}}

main_again ==
    /\ prog = "acq"
    /\ pc \in {"done", "aborted"}
    /\ run < MaxRuns
    /\ run' = run + 1
    /\ prior_success' = prior_success \cup SuccessDates
    /\ \E range \in Ranges :
          /\ start_date' = range[1]
          /\ end_date' = range[2]
          /\ current_date' = range[1]
    /\ pc' = "start"
    /\ success_count' = 0
    /\ statuses' = <<>>
    /\ failed_dates' = <<>>
    /\ skipped_dates' = <<>>
    /\ last_cookie_time' = 0
    /\ now' = StartTime
    /\ netlog' = <<>>
    /\ cookie_times' = <<>>
    /\ last_pause' = 0
    /\ last_response' = NoResponse
    /\ log_fs' = EmptyFs
    /\ log_writes' = <<>>
    /\ summary' = <<>>
    /\ call_base' = 0
    /\ UNCHANGED <<prog, existing_dir, existing_fs, out_fs, convVars, holVars, nameVars, mainVars>>

(***************************************************************************)
(* A caller that keeps the downloader and calls download_range again.      *)
(* What a kept downloader remembers does not involve the existing          *)
(* directory, so these calls are explored without one.                     *)
(***************************************************************************)
download_range_again ==
    /\ prog = "acq"
    /\ ~existing_dir
    /\ pc \in {"done", "aborted"}
    /\ run < MaxRuns
    /\ run' = run + 1
    /\ prior_success' = prior_success \cup SuccessDates
    /\ \E range \in Ranges :
          /\ start_date' = range[1]
          /\ end_date' = range[2]
          /\ current_date' = range[1]
    /\ Len(statuses) + 1 + ToOrdinal(end_date') - ToOrdinal(start_date') <= MaxReuse
    /\ pc' = "start"
    /\ call_base' = Len(statuses)
    /\ summary' = <<>>
    /\ UNCHANGED <<prog, existing_dir, existing_fs, out_fs, success_count,
                   statuses, failed_dates, skipped_dates, last_cookie_time,
                   now, netlog, cookie_times, log_fs, log_writes, convVars, holVars,
                   nameVars, mainVars>>
    /\ last_pause' = 0
    /\ last_response' = NoResponse

(***************************************************************************)
(* datetime.strptime(date_str, "%d%m%Y").date() on a string of characters. *)
(* _strptime matches the regular expression                                *)
(*   (?P<d>3[0-1]|[1-2]\d|0[1-9]|[1-9]| [1-9])                             *)
(*   (?P<m>1[0-2]|0[1-9]|[1-9])(?P<Y>\d\d\d\d)                             *)
(* from the start of the string (alternatives in order, backtracking),     *)
(* rejects a match that leaves characters over, and builds the date,       *)
(* which rejects a day past the month's end and the year 0.                *)
(***************************************************************************)
DigitSet == {"0", "1", "2", "3", "4", "5", "6", "7", "8", "9"}
IsDigit(c) == c \in DigitSet
DigitVal(c) ==
    CASE c = "0" -> 0 [] c = "1" -> 1 [] c = "2" -> 2 [] c = "3" -> 3
      [] c = "4" -> 4 [] c = "5" -> 5 [] c = "6" -> 6 [] c = "7" -> 7
      [] c = "8" -> 8 [] c = "9" -> 9
CharAt(s, i) == IF i >= 1 /\ i <= Len(s) THEN s[i] ELSE "$"
IsNonZeroDigit(c) == IsDigit(c) /\ c # "0"

\* the lengths the alternatives of %d match at position i, in order
DayMatches(s, i) ==
    (IF CharAt(s, i) = "3" /\ CharAt(s, i + 1) \in {"0", "1"} THEN <<2>> ELSE <<>>)
    \o (IF CharAt(s, i) \in {"1", "2"} /\ IsDigit(CharAt(s, i + 1)) THEN <<2>> ELSE <<>>)
    \o (IF CharAt(s, i) = "0" /\ IsNonZeroDigit(CharAt(s, i + 1)) THEN <<2>> ELSE <<>>)
    \o (IF IsNonZeroDigit(CharAt(s, i)) THEN <<1>> ELSE <<>>)
    \o (IF CharAt(s, i) = " " /\ IsNonZeroDigit(CharAt(s, i + 1)) THEN <<2>> ELSE <<>>)

\* the lengths the alternatives of %m match at position i, in order
MonthMatches(s, i) ==
    (IF CharAt(s, i) = "1" /\ CharAt(s, i + 1) \in {"0", "1", "2"} THEN <<2>> ELSE <<>>)
    \o (IF CharAt(s, i) = "0" /\ IsNonZeroDigit(CharAt(s, i + 1)) THEN <<2>> ELSE <<>>)
    \o (IF IsNonZeroDigit(CharAt(s, i)) THEN <<1>> ELSE <<>>)

YearMatches(s, i) ==
    /\ IsDigit(CharAt(s, i))
    /\ IsDigit(CharAt(s, i + 1))
    /\ IsDigit(CharAt(s, i + 2))
    /\ IsDigit(CharAt(s, i + 3))

\* int() of the characters s[i .. i+n-1]; a leading space is ignored
RECURSIVE IntOf(_, _, _)
IntOf(s, i, n) ==
    IF n = 0 THEN 0
    ELSE IF s[i + n - 1] = " " THEN IntOf(s, i, n - 1)
    ELSE IntOf(s, i, n - 1) * 10 + DigitVal(s[i + n - 1])

\* the first alternative of %m at position i after which %Y matches: its
\* length, or 0
RECURSIVE TryMonth(_, _, _, _)
TryMonth(s, i, ms, j) ==
    IF j > Len(ms) THEN 0
    ELSE IF YearMatches(s, i + ms[j]) THEN ms[j]
    ELSE TryMonth(s, i, ms, j + 1)

\* the first match of the expression: <<length of d, length of m>>, or <<>>
RECURSIVE TryDay(_, _, _)
TryDay(s, ds, k) ==
    IF k > Len(ds) THEN <<>>
    ELSE IF TryMonth(s, 1 + ds[k], MonthMatches(s, 1 + ds[k]), 1) # 0
        THEN <<ds[k], TryMonth(s, 1 + ds[k], MonthMatches(s, 1 + ds[k]), 1)>>
    ELSE TryDay(s, ds, k + 1)

FirstMatch(s) == TryDay(s, DayMatches(s, 1), 1)

NoDateValue == [year |-> 0, month |-> 0, day |-> 0]

\* the date built from the match m, or NoDateValue where ValueError is raised
DateOfMatch(s, m) ==
    IF m = <<>> THEN NoDateValue
    ELSE IF m[1] + m[2] + 4 # Len(s) THEN NoDateValue
    ELSE IF IntOf(s, 1 + m[1] + m[2], 4) < 1 THEN NoDateValue
    ELSE IF IntOf(s, 1, m[1]) > DaysInMonth(IntOf(s, 1 + m[1] + m[2], 4),
                                            IntOf(s, 1 + m[1], m[2]))
        THEN NoDateValue
    ELSE [year |-> IntOf(s, 1 + m[1] + m[2], 4),
          month |-> IntOf(s, 1 + m[1], m[2]),
          day |-> IntOf(s, 1, m[1])]

\* the parsed date, or NoDateValue where strptime raises ValueError
StrptimeDmy(s) == DateOfMatch(s, FirstMatch(s))

\* stem[-8:]
Last8(stem) ==
    IF Len(stem) <= 8 THEN stem ELSE SubSeq(stem, Len(stem) - 7, Len(stem))

\* _get_file_datetime_from_name: the trade date, or NoDateValue for None
get_file_datetime_from_name(stem) == StrptimeDmy(Last8(stem))

\* stems of input files: two dated ones and one whose tail is not a date
StemFri == <<"f", "_", "0", "2", "0", "5", "2", "0", "2", "5">>
StemMon == <<"f", "_", "0", "5", "0", "5", "2", "0", "2", "5">>
StemNoDate == <<"f", "_", "0", "2", "0", "5", "2", "0", "2", "x">>

\* another name with the date of StemFri
StemFriAlt == <<"g", "_", "0", "2", "0", "5", "2", "0", "2", "5">>

Stems == {StemFri, StemFriAlt, StemMon, StemNoDate}

\* the dates of the stems of the input files, computed once
TradeDates == [stem \in Stems |-> get_file_datetime_from_name(stem)]

(***************************************************************************)
(* Conversion: the input files.  A file is its folder under raw_root, its  *)
(* stem (the name without ".csv") and its content; "bad" is a content      *)
(* pd.read_csv raises on.                                                  *)
(***************************************************************************)
InputFile(folder, stem, data) == [folder |-> folder, stem |-> stem, data |-> data]

InputCatalogue ==
    { InputFile("202505", StemFri, "rowsA"),
      InputFile("backup", StemFri, "rowsB"),    \* same name in another folder
      InputFile("202505", StemFriAlt, "rowsB"), \* same date under another name
      InputFile("202505", StemMon, "bad"),
      InputFile("202505", StemNoDate, "rowsA") }

FileSets == {s \in SUBSET InputCatalogue : Cardinality(s) <= MaxFiles}

\* the orders in which rglob may list a set of files
Orderings(S) ==
    {q \in [1 .. Cardinality(S) -> S] : \A i, j \in 1 .. Cardinality(S) : q[i] = q[j] => i = j}

Content(fmt, data) == [fmt |-> fmt, data |-> data]

\* output_root / "raw" / "cm" / f"year={y}" / f"month={m:02d}" [/ name]
RawDir(d) == <<"raw", d.year, d.month>>
RawPath(d, f) == <<d.year, d.month, f.stem>>
\* output_root / "curated" / "cm" / f"year={y}" / f"month={m:02d}" [/ f"day={d:02d}.parquet"]
CuratedDir(d) == <<"curated", d.year, d.month>>
CuratedPath(d) == <<d.year, d.month, d.day>>

CopyOutcomes == {"ok", "fail", "fail_partial"}
ConvertOutcomes == {"ok", "write_fail", "write_fail_partial"}
\* mkdir(parents=True, exist_ok=True) of a directory that is not there yet
MkdirOutcomes == {"ok", "raw_fail", "curated_fail"}

(***************************************************************************)
(* ProcessingTracker.add_record: the row appended and the counter raised.  *)
(***************************************************************************)
StatusRecord(f, status, output, out_fs_now, copied) ==
    [file |-> f,
     status |-> status,
     output |-> output,
     output_content |-> IF output # NoPath /\ output \in DOMAIN out_fs_now
                           THEN <<out_fs_now[output]>> ELSE <<>>,
     file_date |-> TradeDates[f.stem],
     copied |-> copied]

add_record_records(recs, row) == Append(recs, row)

\* fault: the error counter is never raised
add_record_stats_no_error(st, status) ==
    IF status \in (DOMAIN st) \ {"Error"}
        THEN [st EXCEPT ![status] = st[status] + 1] ELSE st

add_record_stats(st, status) ==
    IF status \in DOMAIN st THEN [st EXCEPT ![status] = st[status] + 1] ELSE st

(***************************************************************************)
(* The body of the loop of _build_daily_parquet (lines 199-275) for file f *)
(* against the environment (copy_out, convert_out): the branch taken, the  *)
(* files and directories afterwards, and the calls of add_record; the      *)
(* branch "raise" is an exception that leaves _build_daily_parquet.        *)
(***************************************************************************)
\* the arguments of one call of tracker.add_record
AddRecordCall(status, output, copied) ==
    [status |-> status, output |-> output, copied |-> copied]

FileResult(branch, raw, cur, dirs, calls, ops) ==
    [branch |-> branch, raw |-> raw, cur |-> cur, dirs |-> dirs, calls |-> calls,
     ops |-> ops]

\* fault: a file without a date in its name is passed over without a record
DateErrorCallsNone == <<>>

\* the calls of add_record each branch of the loop makes
\* lines 200-205
DateErrorCalls == <<AddRecordCall("Error", NoPath, NoPath)>>
\* lines 223-228
CopyErrorCalls == <<AddRecordCall("Error", NoPath, NoPath)>>

\* fault: the skip branch continues without a record
SkipCallsNone(out_file_parquet, copied_input_path) == <<>>

\* lines 245-255
SkipCalls(out_file_parquet, copied_input_path) ==
    <<AddRecordCall("Skipped", out_file_parquet, copied_input_path)>>
\* lines 264-266
SuccessCalls(out_file_parquet, copied_input_path) ==
    <<AddRecordCall("Success", out_file_parquet, copied_input_path)>>
\* lines 269-275
ConvertErrorCalls(copied_input_path) ==
    <<AddRecordCall("Error", NoPath, copied_input_path)>>

\* fault: an existing curated file is never skipped
CuratedSkipNever(frc, exists) == FALSE

\* fault: an existing curated file is skipped only when force is set
CuratedSkipWhenForced(frc, exists) == frc /\ exists

\* line 245: not force and out_file_parquet.exists()
CuratedSkip(frc, exists) == ~frc /\ exists

\* fault: the raw input is copied over whatever is at the destination
ShouldCopyAlways(frc, exists) == TRUE

\* line 217: force or not copied_input_path.exists()
ShouldCopy(frc, exists) == frc \/ ~exists

ProcessFile(f, frc, raw, cur, dirs, copy_out, convert_out, mkdir_out) ==
    LET trade_date == TradeDates[f.stem]
        copied_input_path == RawPath(trade_date, f)
        out_file_parquet == CuratedPath(trade_date)
        dirs1 == dirs \cup {RawDir(trade_date)}
        dirs2 == dirs1 \cup {CuratedDir(trade_date)}
        do_copy == ShouldCopy(frc, copied_input_path \in DOMAIN raw)
        raw1 == IF ~do_copy THEN raw
                ELSE IF copy_out = "ok"
                    THEN Put(raw, copied_input_path, Content("csv", f.data))
                ELSE IF copy_out = "fail_partial"
                    THEN Put(raw, copied_input_path, Content("partial", f.data))
                ELSE raw
        copy_ops == IF do_copy THEN {"copy2"} ELSE {}
    IN  IF trade_date = NoDateValue
        THEN FileResult("date_error", raw, cur, dirs, DateErrorCalls, {})
        ELSE IF mkdir_out = "raw_fail" /\ RawDir(trade_date) \notin dirs
        THEN \* raw_out_dir.mkdir raises, outside any try
             FileResult("raise", raw, cur, dirs, <<>>, {})
        ELSE IF do_copy /\ copy_out # "ok"
        THEN FileResult("copy_error", raw1, cur, dirs1, CopyErrorCalls,
                        copy_ops \cup {"copy2_raised"})
        ELSE IF mkdir_out = "curated_fail" /\ CuratedDir(trade_date) \notin dirs1
        THEN \* curated_out_dir.mkdir raises, outside any try
             FileResult("raise", raw1, cur, dirs1, <<>>, copy_ops)
        ELSE IF CuratedSkip(frc, out_file_parquet \in DOMAIN cur)
        THEN FileResult("curated_exists", raw1, cur, dirs2,
                        SkipCalls(out_file_parquet, copied_input_path), copy_ops)
        ELSE IF f.data = "bad"
        THEN \* pd.read_csv raises
             FileResult("convert_error", raw1, cur, dirs2,
                        ConvertErrorCalls(copied_input_path),
                        copy_ops \cup {"read_csv"})
        ELSE IF convert_out = "ok"
        THEN FileResult("convert_ok", raw1,
                        Put(cur, out_file_parquet, Content("parquet", f.data)), dirs2,
                        SuccessCalls(out_file_parquet, copied_input_path),
                        copy_ops \cup {"read_csv", "to_parquet"})
        ELSE IF convert_out = "write_fail_partial"
        THEN \* df.to_parquet raises after it began to write the file
             FileResult("convert_error", raw1,
                        Put(cur, out_file_parquet, Content("partial", f.data)), dirs2,
                        ConvertErrorCalls(copied_input_path),
                        copy_ops \cup {"read_csv", "to_parquet"})
        ELSE \* df.to_parquet raises before anything is written
             FileResult("convert_error", raw1, cur, dirs2,
                        ConvertErrorCalls(copied_input_path),
                        copy_ops \cup {"read_csv", "to_parquet"})

\* the tracker after the calls of add_record a branch makes, in order
RECURSIVE RecordsAfter(_, _, _, _)
RecordsAfter(recs, f, calls, cur) ==
    IF calls = <<>> THEN recs
    ELSE RecordsAfter(
             add_record_records(recs, StatusRecord(f, Head(calls).status,
                                                   Head(calls).output, cur,
                                                   Head(calls).copied)),
             f, Tail(calls), cur)

RECURSIVE StatsAfter(_, _)
StatsAfter(st, calls) ==
    IF calls = <<>> THEN st
    ELSE StatsAfter(add_record_stats(st, Head(calls).status), Tail(calls))

NoStats == [Success |-> 0, Skipped |-> 0, Error |-> 0]

(***************************************************************************)
(* The holiday oracle (holidays/indian_holidays.py).  A holiday file is    *)
(* missing, unreadable (open or read raises) or a sequence of lines; a     *)
(* line is a sequence of characters.                                       *)
(***************************************************************************)
RECURRING_HOLIDAYS == {<<1, 26>>, <<5, 1>>, <<8, 15>>, <<10, 2>>, <<12, 25>>}

HolidayManager(using_recurring, loaded_holidays) ==
    [using_recurring |-> using_recurring, loaded_holidays |-> loaded_holidays]

\* lines 52-56: the file does not exist
load_holidays_missing == HolidayManager(TRUE, RECURRING_HOLIDAYS)

Whitespace == {" ", "\t", "\n", "\r"}

\* raw_line.strip()
RECURSIVE LStrip(_)
LStrip(s) == IF s # <<>> /\ Head(s) \in Whitespace THEN LStrip(Tail(s)) ELSE s

RECURSIVE RStrip(_)
RStrip(s) ==
    IF s # <<>> /\ s[Len(s)] \in Whitespace
        THEN RStrip(SubSeq(s, 1, Len(s) - 1))
        ELSE s

Strip(s) == RStrip(LStrip(s))

\* the first alternative of %m at position 6 that is followed by "-" and a
\* match of %d: its length, or 0
RECURSIVE TryMonthIso(_, _, _)
TryMonthIso(s, ms, j) ==
    IF j > Len(ms) THEN 0
    ELSE IF CharAt(s, 6 + ms[j]) = "-" /\ DayMatches(s, 7 + ms[j]) # <<>>
        THEN ms[j]
    ELSE TryMonthIso(s, ms, j + 1)

IsoDate(s, mlen, dlen) ==
    IF 6 + mlen + dlen # Len(s) THEN NoDateValue      \* unconverted data remains
    ELSE IF IntOf(s, 1, 4) < 1 THEN NoDateValue
    ELSE IF IntOf(s, 7 + mlen, dlen) > DaysInMonth(IntOf(s, 1, 4), IntOf(s, 6, mlen))
        THEN NoDateValue
    ELSE [year |-> IntOf(s, 1, 4),
          month |-> IntOf(s, 6, mlen),
          day |-> IntOf(s, 7 + mlen, dlen)]

\* datetime.strptime(line, "%Y-%m-%d").date(), or NoDateValue where it raises
\* ValueError; the expression is
\*   (?P<Y>\d\d\d\d)-(?P<m>1[0-2]|0[1-9]|[1-9])-(?P<d>3[0-1]|[1-2]\d|0[1-9]|[1-9]| [1-9])
StrptimeYmd(s) ==
    IF ~(YearMatches(s, 1) /\ CharAt(s, 5) = "-") THEN NoDateValue
    ELSE IF TryMonthIso(s, MonthMatches(s, 6), 1) = 0 THEN NoDateValue
    ELSE IsoDate(s, TryMonthIso(s, MonthMatches(s, 6), 1),
                 DayMatches(s, 7 + TryMonthIso(s, MonthMatches(s, 6), 1))[1])

\* lines 62-70: the loop over the lines of the file
RECURSIVE ReadLines(_, _)
ReadLines(lines, holidays) ==
    IF lines = <<>> THEN holidays
    ELSE IF Strip(Head(lines)) = <<>> THEN ReadLines(Tail(lines), holidays)
    ELSE IF StrptimeYmd(Strip(Head(lines))) = NoDateValue
        THEN ReadLines(Tail(lines), holidays)
    ELSE ReadLines(Tail(lines), holidays \cup {StrptimeYmd(Strip(Head(lines)))})

HolidayFile(state, lines) == [state |-> state, lines |-> lines]
MissingFile == HolidayFile("missing", <<>>)
UnreadableFile == HolidayFile("unreadable", <<>>)

\* load_holidays that adds the dates of the file to the ones it holds
load_holidays_merging(m, file) ==
    IF file.state # "ok" THEN HolidayManager(TRUE, RECURRING_HOLIDAYS)
    ELSE HolidayManager(FALSE,
             ReadLines(file.lines,
                       IF m.using_recurring THEN {} ELSE m.loaded_holidays))

\* load_holidays on the manager m: the manager afterwards
load_holidays(m, file) ==
    IF file.state = "missing"
        THEN HolidayManager(TRUE, RECURRING_HOLIDAYS)
    ELSE IF file.state = "unreadable"
        THEN HolidayManager(TRUE, RECURRING_HOLIDAYS)
    ELSE HolidayManager(FALSE, ReadLines(file.lines, {}))

\* date.date() where the argument is a datetime
DateOf(date) ==
    IF "hour" \in DOMAIN date
        THEN [year |-> date.year, month |-> date.month, day |-> date.day]
        ELSE date

\* is_public_holiday where the recurring pairs count in one year only
is_public_holiday_one_year(m, date) ==
    IF m.using_recurring
        THEN date.year = 2024 /\ <<date.month, date.day>> \in m.loaded_holidays
        ELSE \/ DateOf(date) \in m.loaded_holidays
             \/ <<date.month, date.day>> \in RECURRING_HOLIDAYS

\* is_public_holiday without the recurring pairs behind a loaded file
is_public_holiday_file_only(m, date) ==
    IF m.using_recurring
        THEN <<date.month, date.day>> \in m.loaded_holidays
        ELSE DateOf(date) \in m.loaded_holidays

is_public_holiday(m, date) ==
    IF m.using_recurring
        THEN <<date.month, date.day>> \in m.loaded_holidays
        ELSE \/ DateOf(date) \in m.loaded_holidays
             \/ <<date.month, date.day>> \in RECURRING_HOLIDAYS

\* lines of holiday files: 14 March 2024, the same with a one-digit month and
\* its newline, 26 December 2031 between spaces, 26 January 2019, a day the
\* month does not have, a date written day first, a blank line and a header
HolidayLines ==
    [pi_day |-> <<"2", "0", "2", "4", "-", "0", "3", "-", "1", "4">>,
     pi_day_short |-> <<"2", "0", "2", "4", "-", "3", "-", "1", "4", "\n">>,
     boxing_padded |-> <<" ", "2", "0", "3", "1", "-", "1", "2", "-", "2", "6", " ">>,
     republic |-> <<"2", "0", "1", "9", "-", "0", "1", "-", "2", "6">>,
     feb30 |-> <<"2", "0", "2", "4", "-", "0", "2", "-", "3", "0">>,
     dmy |-> <<"1", "4", "-", "0", "3", "-", "2", "0", "2", "4">>,
     blank |-> <<" ", "\n">>,
     header |-> <<"d", "a", "t", "e">>]

HolidayFileCatalogue ==
    {MissingFile, UnreadableFile,
     HolidayFile("ok", <<>>),
     HolidayFile("ok", <<HolidayLines.header, HolidayLines.pi_day>>),
     HolidayFile("ok", <<HolidayLines.pi_day_short, HolidayLines.feb30,
                         HolidayLines.blank, HolidayLines.dmy>>),
     HolidayFile("ok", <<HolidayLines.republic, HolidayLines.pi_day,
                         HolidayLines.boxing_padded>>)}

DEFAULT_HOLIDAY_FILE == "nse_holidays.csv"
HolidayFileNames == {DEFAULT_HOLIDAY_FILE, "other.csv"}

\* the dates is_public_holiday is asked about, as dates and, in one year, as
\* datetimes too
QueryDates ==
    {[year |-> y, month |-> md[1], day |-> md[2]] :
        y \in {2019, 2024, 2031},
        md \in {<<1, 26>>, <<1, 27>>, <<3, 14>>, <<5, 1>>, <<12, 25>>, <<12, 26>>}}
QueryKinds(date) == IF date.year = 2024 THEN BOOLEAN ELSE {FALSE}
QueryArgument(date, is_datetime) ==
    IF is_datetime
        THEN [year |-> date.year, month |-> date.month, day |-> date.day, hour |-> 9]
        ELSE date

NoLoad == [file |-> "", content |-> MissingFile]
NoQuery == [date |-> NoDateValue, is_datetime |-> FALSE, answer |-> FALSE]

\* HolidayManager.__init__ and the files it will find
FreshManager == HolidayManager(FALSE, {})

\* no file name has been given to _get_file_datetime_from_name
NameIdle ==
    /\ name_pc = "idle"
    /\ filepath_stem = <<>>
    /\ returned_date = NoDateValue

MainIdle ==
    /\ main_pc = "idle"
    /\ cli_args = [start_date |-> <<>>, end_date |-> <<>>]
    /\ today = WindowStart
    /\ made = {}

HolIdle ==
    /\ manager = FreshManager
    /\ prev_manager = FreshManager
    /\ never_loaded = TRUE
    /\ holiday_files = [n \in HolidayFileNames |-> MissingFile]
    /\ last_load = NoLoad
    /\ last_query = NoQuery
    /\ hol_op = "none"

AcqIdle ==
    /\ pc = "idle"
    /\ start_date = WindowStart
    /\ end_date = WindowStart
    /\ current_date = WindowStart
    /\ existing_dir = FALSE
    /\ existing_fs = {}
    /\ out_fs = EmptyFs
    /\ success_count = 0
    /\ statuses = <<>>
    /\ failed_dates = <<>>
    /\ skipped_dates = <<>>
    /\ last_cookie_time = 0
    /\ now = StartTime
    /\ netlog = <<>>
    /\ cookie_times = <<>>
    /\ last_pause = 0
    /\ last_response = NoResponse
    /\ log_fs = EmptyFs
    /\ log_writes = <<>>
    /\ summary = <<>>
    /\ call_base = 0
    /\ prior_success = {}

ConvIdle ==
    /\ conv_pc = "idle"
    /\ force = FALSE
    /\ raw_root_files = {}
    /\ input_csv_files = <<>>
    /\ conv_idx = 1
    /\ records = <<>>
    /\ stats = NoStats
    /\ raw_fs = EmptyFs
    /\ curated_fs = EmptyFs
    /\ out_dirs = {}
    /\ status_csv = <<>>
    /\ conv_summary = <<>>
    /\ prev_records = {}
    /\ prev_curated = EmptyFs
    /\ prev_force = FALSE
    /\ last_ops = {}

InitAcq ==
    /\ prog = "acq"
    /\ run = 1
    /\ \E range \in Ranges : FreshDownloader(range)
    /\ existing_dir \in BOOLEAN
    /\ existing_fs \in {s \in SUBSET {ExistingFile(d) : d \in Window} :
                            /\ Cardinality(s) <= MaxPre
                            /\ (existing_dir <=> s # {})}
    /\ out_fs = EmptyFs
    /\ prior_success = {}
    /\ ConvIdle
    /\ HolIdle
    /\ NameIdle
    /\ MainIdle

InitConv ==
    /\ prog = "conv"
    /\ run = 1
    /\ AcqIdle
    /\ HolIdle
    /\ NameIdle
    /\ MainIdle
    /\ conv_pc = "start"
    /\ force \in BOOLEAN
    /\ raw_root_files \in FileSets
    /\ input_csv_files = <<>>
    /\ conv_idx = 1
    /\ records = <<>>
    /\ stats = NoStats
    /\ raw_fs = EmptyFs
    /\ curated_fs = EmptyFs
    /\ out_dirs = {}
    /\ status_csv = <<>>
    /\ conv_summary = <<>>
    /\ prev_records = {}
    /\ prev_curated = EmptyFs
    /\ prev_force = FALSE
    /\ last_ops = {}

\* lines 185-197: list the files; return when there is none
build_begin ==
    /\ prog = "conv"
    /\ conv_pc = "start"
    /\ \E q \in Orderings(raw_root_files) : input_csv_files' = q
    /\ conv_pc' = IF raw_root_files = {} THEN "done" ELSE "loop"
    /\ conv_idx' = 1
    /\ records' = <<>>
    /\ stats' = NoStats
    /\ UNCHANGED <<prog, run, acqVars, holVars, nameVars, mainVars, force,
                   raw_root_files, raw_fs, curated_fs,
                   out_dirs, status_csv, conv_summary, prev_records,
                   prev_curated, prev_force, last_ops>>

\* lines 199-275: one file
build_step ==
    /\ prog = "conv"
    /\ conv_pc = "loop"
    /\ conv_idx <= Len(input_csv_files)
    /\ \E copy_out \in CopyOutcomes, convert_out \in ConvertOutcomes,
          mkdir_out \in MkdirOutcomes :
          LET f == input_csv_files[conv_idx]
              r == ProcessFile(f, force, raw_fs, curated_fs, out_dirs,
                               copy_out, convert_out, mkdir_out)
          IN  /\ raw_fs' = r.raw
              /\ curated_fs' = r.cur
              /\ out_dirs' = r.dirs
              /\ records' = RecordsAfter(records, f, r.calls, r.cur)
              /\ stats' = StatsAfter(stats, r.calls)
              /\ last_ops' = r.ops
              /\ conv_pc' = IF r.branch = "raise" THEN "aborted" ELSE conv_pc
              /\ conv_idx' = IF r.branch = "raise" THEN conv_idx ELSE conv_idx + 1
    /\ UNCHANGED <<prog, run, acqVars, holVars, nameVars, mainVars, force, raw_root_files,
                   input_csv_files, status_csv, conv_summary, prev_records,
                   prev_curated, prev_force>>

\* lines 277-283: save_to_csv (which leaves an existing report alone) and
\* print_summary
build_end ==
    /\ prog = "conv"
    /\ conv_pc = "loop"
    /\ conv_idx > Len(input_csv_files)
    /\ conv_pc' = "done"
    /\ status_csv' = IF status_csv # <<>> THEN status_csv ELSE <<records>>
    /\ conv_summary' = <<stats.Success + stats.Skipped + stats.Error>>
    /\ UNCHANGED <<prog, run, acqVars, holVars, nameVars, mainVars, force,
                   raw_root_files, input_csv_files,
                   conv_idx, records, stats, raw_fs, curated_fs, out_dirs,
                   prev_records, prev_curated, prev_force, last_ops>>

\* _build_daily_parquet is run again over the same raw_root and output_root,
\* by the same process or by a new one (whose report has another name)
build_again ==
    /\ prog = "conv"
    /\ conv_pc \in {"done", "aborted"}
    /\ run < MaxRuns
    /\ (run + 1) * Cardinality(raw_root_files) <= MaxConvWork
    /\ run' = run + 1
    /\ conv_pc' = "start"
    /\ force' \in BOOLEAN
    /\ \E same_process \in BOOLEAN :
          status_csv' = IF same_process THEN status_csv ELSE <<>>
    /\ prev_records' = {records[i] : i \in 1 .. Len(records)}
    /\ prev_curated' = curated_fs
    /\ prev_force' = force
    /\ input_csv_files' = <<>>
    /\ conv_idx' = 1
    /\ records' = <<>>
    /\ stats' = NoStats
    /\ conv_summary' = <<>>
    /\ last_ops' = {}
    /\ UNCHANGED <<prog, acqVars, holVars, nameVars, mainVars, raw_root_files, raw_fs,
                   curated_fs, out_dirs>>

(***************************************************************************)
(* The holiday oracle in use: a caller loads a holiday file, asks about a  *)
(* date, and the files change between the calls.                           *)
(***************************************************************************)
\* load_holidays(holiday_file)
LoadHolidays ==
    /\ prog = "hol"
    /\ \E name \in HolidayFileNames :
          /\ manager' = load_holidays(manager, holiday_files[name])
          /\ prev_manager' = manager
          /\ last_load' = [file |-> name, content |-> holiday_files[name]]
    /\ never_loaded' = FALSE
    /\ last_query' = NoQuery
    /\ hol_op' = "load"
    /\ UNCHANGED <<prog, run, acqVars, convVars, nameVars, mainVars, holiday_files>>

\* fault: get_holidays reads the default file again on every call
get_holidays_reloading(m, none, files) ==
    load_holidays(m, files[DEFAULT_HOLIDAY_FILE])

\* get_holidays: the manager after the load it makes when nothing was loaded
get_holidays(m, none, files) ==
    IF none THEN load_holidays(m, files[DEFAULT_HOLIDAY_FILE]) ELSE m

\* is_public_holiday(date)
IsPublicHoliday ==
    /\ prog = "hol"
    /\ manager' = get_holidays(manager, never_loaded, holiday_files)
    /\ prev_manager' = IF never_loaded THEN manager ELSE prev_manager
    /\ never_loaded' = FALSE
    /\ last_load' = IF never_loaded
                       THEN [file |-> DEFAULT_HOLIDAY_FILE,
                             content |-> holiday_files[DEFAULT_HOLIDAY_FILE]]
                       ELSE last_load
    /\ \E date \in QueryDates :
       \E is_datetime \in QueryKinds(date) :
          last_query' = [date |-> date, is_datetime |-> is_datetime,
                         answer |-> is_public_holiday(manager',
                                        QueryArgument(date, is_datetime))]
    /\ hol_op' = "query"
    /\ UNCHANGED <<prog, run, acqVars, convVars, nameVars, mainVars, holiday_files>>

\* get_holidays(), `item in manager`, iter(manager) and len(manager): each
\* calls get_holidays and reads what it returns
GetHolidays ==
    /\ prog = "hol"
    /\ manager' = get_holidays(manager, never_loaded, holiday_files)
    /\ prev_manager' = IF never_loaded THEN manager ELSE prev_manager
    /\ never_loaded' = FALSE
    /\ last_load' = IF never_loaded
                       THEN [file |-> DEFAULT_HOLIDAY_FILE,
                             content |-> holiday_files[DEFAULT_HOLIDAY_FILE]]
                       ELSE last_load
    /\ last_query' = NoQuery
    /\ hol_op' \in {"get_holidays", "contains", "iter", "len"}
    /\ UNCHANGED <<prog, run, acqVars, convVars, nameVars, mainVars, holiday_files>>

\* somebody replaces, removes or locks a holiday file
HolidayFileChanges ==
    /\ prog = "hol"
    /\ \E name \in HolidayFileNames, file \in HolidayFileCatalogue :
          /\ file # holiday_files[name]
          /\ holiday_files' = [holiday_files EXCEPT ![name] = file]
    /\ last_query' = NoQuery
    /\ hol_op' = "edit"
    /\ UNCHANGED <<prog, run, acqVars, convVars, nameVars, mainVars, manager, prev_manager,
                   never_loaded, last_load>>

InitHoliday ==
    /\ prog = "hol"
    /\ run = 1
    /\ AcqIdle
    /\ ConvIdle
    /\ NameIdle
    /\ MainIdle
    /\ manager = FreshManager
    /\ prev_manager = FreshManager
    /\ never_loaded = TRUE
    /\ holiday_files \in [HolidayFileNames -> HolidayFileCatalogue]
    /\ last_load = NoLoad
    /\ last_query = NoQuery
    /\ hol_op = "none"

HolidayNext ==
    \/ LoadHolidays
    \/ IsPublicHoliday
    \/ GetHolidays
    \/ HolidayFileChanges

(***************************************************************************)
(* _get_file_datetime_from_name on its own: file names put together from a *)
(* prefix and the three fields of a date, written in several ways.         *)
(***************************************************************************)
FileStems ==
    {p \o d \o m \o y :
        p \in {<<>>, <<"x">>, <<"f", "_">>},
        d \in {<<"0", "1">>, <<"1">>, <<" ", "1">>, <<"1", "0">>, <<"2", "9">>,
               <<"3", "0">>, <<"3", "1">>, <<"0", "0">>, <<"3", "2">>, <<"x", "1">>},
        m \in {<<"0", "2">>, <<"2">>, <<"0", "5">>, <<"5">>, <<"1", "2">>,
               <<"1", "3">>, <<"0", "0">>},
        y \in {<<"2", "0", "2", "5">>, <<"2", "0", "2", "4">>,
               <<"0", "0", "0", "0">>, <<"2", "0", "2", "x">>}}

InitName ==
    /\ prog = "name"
    /\ run = 1
    /\ AcqIdle
    /\ ConvIdle
    /\ HolIdle
    /\ MainIdle
    /\ name_pc = "call"
    /\ filepath_stem \in FileStems
    /\ returned_date = NoDateValue

\* _get_file_datetime_from_name(filepath)
GetFileDatetimeFromName ==
    /\ prog = "name"
    /\ name_pc = "call"
    /\ returned_date' = get_file_datetime_from_name(filepath_stem)
    /\ name_pc' = "returned"
    /\ UNCHANGED <<prog, run, acqVars, convVars, holVars, mainVars, filepath_stem>>

(***************************************************************************)
(* main() of the acquisition program (lines 535-597): the two dates of the *)
(* command line are parsed and validated; a failure returns before         *)
(* anything is created, otherwise the output directory and a downloader    *)
(* are created and download_range is called.                               *)
(***************************************************************************)
\* the command lines: ranges of one and two days, the earliest start date, a
\* start after the end, an end after today, a start before the earliest
\* date, dates that are no dates, and dates with a one-digit or padded field
CliArgs ==
    {[start_date |-> <<"2", "0", "2", "5", "-", "0", "5", "-", "0", "1">>,
      end_date |-> <<"2", "0", "2", "5", "-", "0", "5", "-", "0", "1">>],
     [start_date |-> <<"2", "0", "2", "5", "-", "0", "5", "-", "0", "1">>,
      end_date |-> <<"2", "0", "2", "5", "-", "0", "5", "-", "0", "2">>],
     [start_date |-> <<"2", "0", "1", "0", "-", "0", "2", "-", "0", "1">>,
      end_date |-> <<"2", "0", "1", "0", "-", "0", "2", "-", "0", "1">>],
     [start_date |-> <<"2", "0", "2", "5", "-", "0", "5", "-", "0", "2">>,
      end_date |-> <<"2", "0", "2", "5", "-", "0", "5", "-", "0", "1">>],
     [start_date |-> <<"2", "0", "2", "5", "-", "0", "5", "-", "0", "2">>,
      end_date |-> <<"2", "0", "2", "5", "-", "0", "5", "-", "0", "3">>],
     [start_date |-> <<"2", "0", "1", "0", "-", "0", "1", "-", "3", "1">>,
      end_date |-> <<"2", "0", "1", "0", "-", "0", "2", "-", "0", "1">>],
     [start_date |-> <<"0", "1", "-", "0", "5", "-", "2", "0", "2", "5">>,
      end_date |-> <<"2", "0", "2", "5", "-", "0", "5", "-", "0", "2">>],
     [start_date |-> <<"2", "0", "2", "5", "-", "0", "5", "-", "0", "1">>,
      end_date |-> <<"2", "0", "2", "5", "-", "0", "2", "-", "3", "0">>],
     [start_date |-> <<"2", "0", "2", "5", "-", "0", "5", "-", "0", "1">>,
      end_date |-> <<"t", "o", "m", "o", "r", "r", "o", "w">>],
     [start_date |-> <<"2", "0", "2", "5", "-", "5", "-", "1">>,
      end_date |-> <<"2", "0", "2", "5", "-", "0", "5", "-", "0", "1">>],
     [start_date |-> <<"2", "0", "2", "5", "-", "0", "5", "-", "0", "1">>,
      end_date |-> <<"2", "0", "2", "5", "-", "0", "5", "-", " ", "2">>]}

\* lines 565-585: TRUE when main returns before any work; t is the date of
\* datetime.now(), which end_date, midnight of its day, is compared with
SetupFails(start, end, t) ==
    IF start = NoDateValue \/ end = NoDateValue THEN TRUE   \* ValueError
    ELSE IF ~DateLE(start, end) THEN TRUE                   \* start_date > end_date
    ELSE IF ~DateLE(end, t) THEN TRUE                       \* end_date > datetime.now()
    ELSE ~DateLE([year |-> 2010, month |-> 2, day |-> 1], start)

main ==
    /\ prog = "acq"
    /\ main_pc = "start"
    /\ LET start == StrptimeYmd(cli_args.start_date)
           end == StrptimeYmd(cli_args.end_date)
       IN  IF SetupFails(start, end, today)
           THEN /\ main_pc' = "returned"
                /\ UNCHANGED <<made, pc, start_date, end_date, current_date>>
           ELSE /\ main_pc' = "running"
                /\ made' = {"output_dir", "downloader"}
                /\ pc' = "start"
                /\ start_date' = start
                /\ end_date' = end
                /\ current_date' = start
    /\ UNCHANGED <<prog, run, existing_dir, existing_fs, out_fs, success_count,
                   statuses, failed_dates, skipped_dates, last_cookie_time, now,
                   netlog, cookie_times, last_pause, last_response, log_fs, log_writes,
                   summary, call_base, prior_success, cli_args, today,
                   convVars, holVars, nameVars>>

InitMain ==
    /\ prog = "acq"
    /\ run = 1
    /\ AcqIdle
    /\ ConvIdle
    /\ HolIdle
    /\ NameIdle
    /\ main_pc = "start"
    /\ cli_args \in CliArgs
    /\ today \in {AddDays(WindowStart, 1), AddDays(WindowStart, 2)}
    /\ made = {}

AcqNext ==
    \/ download_range_begin
    \/ download_range_step
    \/ download_range_end
    \/ main_again

ConvNext ==
    \/ build_begin
    \/ build_step
    \/ build_end
    \/ build_again

Init == InitAcq \/ InitConv
Next == AcqNext \/ ConvNext

\* both programs
Spec == Init /\ [][Next]_vars
\* the acquisition program alone, and with callers that keep the downloader
SpecAcq == InitAcq /\ [][AcqNext]_vars
SpecReuse == InitAcq /\ [][AcqNext \/ download_range_again]_vars
\* the acquisition program from its command line
SpecMain ==
    InitMain /\ [][main \/ download_range_begin \/ download_range_step
                        \/ download_range_end]_vars
\* the conversion program alone
SpecConv == InitConv /\ [][ConvNext]_vars

\* the holiday oracle on its own
SpecHoliday == InitHoliday /\ [][HolidayNext]_vars

\* the date of a file name on its own
SpecName == InitName /\ [][GetFileDatetimeFromName]_vars

(***************************************************************************)
(* Properties.                                                             *)
(***************************************************************************)
\* the ledger rows of the current call of download_range
CurrentRows == SubSeq(statuses, call_base + 1, Len(statuses))

RangeLength == ToOrdinal(end_date) - ToOrdinal(start_date) + 1

\* the loop of download_range is about to process current_date
AtDate == prog = "acq" /\ pc = "loop" /\ DateLE(current_date, end_date)

\* the step appended exactly one ledger row, for current_date
OneRowAppended ==
    /\ Len(statuses') = Len(statuses) + 1
    /\ SubSeq(statuses', 1, Len(statuses)) = statuses
    /\ statuses'[Len(statuses')].date = FormatDateStr(current_date)

\* the step sent no request and touched no file
NoNetworkNoFiles ==
    /\ netlog' = netlog
    /\ last_cookie_time' = last_cookie_time
    /\ out_fs' = out_fs
    /\ existing_fs' = existing_fs

\* C1: when download_range is over, however it ended, the ledger holds
\* exactly one row for every calendar date of [start_date, end_date], in
\* ascending date order.
C1_LedgerComplete ==
    (prog = "acq" /\ pc \in {"done", "aborted"}) =>
        /\ Len(CurrentRows) = RangeLength
        /\ \A i \in 1 .. Len(CurrentRows) :
              CurrentRows[i].date = FormatDateStr(AddDays(start_date, i - 1))

\* C2: add_record is called exactly once for every file the loop of
\* _build_daily_parquet has been through: the records are the files, in the
\* order processed, and a finished run has one record for each matched file.
C2_OneRecordPerFile ==
    prog = "conv" =>
        /\ Len(records) = conv_idx - 1
        /\ \A i \in 1 .. Len(records) : records[i].file = input_csv_files[i]
        /\ conv_pc = "done" =>
              \A f \in raw_root_files :
                  Cardinality({i \in 1 .. Len(records) : records[i].file = f}) = 1

C2_Witness ==
    /\ prog = "conv"
    /\ conv_pc = "done"
    /\ Len(records) = 2
    /\ records[1].status = "Error"
    /\ records[2].status = "Skipped"

C4_NoExceptionEscapes == pc # "aborted" /\ conv_pc # "aborted"

\* C5: processing a Saturday or a Sunday sends no request (no cookie
\* refresh, no report fetch), touches no file and appends one row with the
\* status skipped_weekend and the weekend reason.
C5_WeekendSkipped ==
    [][(AtDate /\ Weekday(current_date) \in {5, 6}) =>
          /\ NoNetworkNoFiles
          /\ statuses' = Append(statuses,
                StatusEntry(FormatDateStr(current_date), "skipped_weekend",
                            Reason("Market closed on weekends", 0), NoPath))]_vars

\* a Saturday whose file is in the existing directory was skipped as weekend
C5_Witness ==
    /\ prog = "acq"
    /\ \E i \in 1 .. Len(statuses), d \in Window :
          /\ Weekday(d) \in {5, 6}
          /\ ExistingFile(d) \in existing_fs
          /\ statuses[i].date = FormatDateStr(d)
          /\ statuses[i].status = "skipped_weekend"

\* C6: processing a weekday whose expected file is in the existing directory
\* or in the output folder sends no request (no cookie refresh, no fetch),
\* changes no file and appends one row with the status skipped_existing and
\* an "already exists" reason.
C6_ExistingSkipped ==
    [][(/\ AtDate
        /\ Weekday(current_date) \notin {5, 6}
        /\ \/ existing_dir /\ ExistingFile(current_date) \in existing_fs
           \/ ExpectedCsv(current_date) \in DOMAIN out_fs) =>
          /\ NoNetworkNoFiles
          /\ OneRowAppended
          /\ statuses'[Len(statuses')].status = "skipped_existing"
          /\ statuses'[Len(statuses')].reason \in
                {Reason("File already exists", 0),
                 Reason("File already exists in existing directory", 0)}]_vars

\* both kinds of existing file were skipped in one run
C6_Witness ==
    /\ prog = "acq"
    /\ pc = "done"
    /\ \E i, j \in 1 .. Len(statuses) :
          /\ statuses[i].status = "skipped_existing"
          /\ statuses[i].reason = Reason("File already exists in existing directory", 0)
          /\ statuses[j].status = "skipped_existing"
          /\ statuses[j].reason = Reason("File already exists", 0)

\* C7: a date recorded as success by an earlier download_range (of an
\* earlier process or of the same downloader) is processed by a later one
\* without a request and without an extraction, and recorded as skipped.
C7_RerunSkipsSuccess ==
    [][(AtDate /\ FormatDateStr(current_date) \in prior_success) =>
          /\ NoNetworkNoFiles
          /\ OneRowAppended
          /\ statuses'[Len(statuses')].status = "skipped_existing"]_vars

\* a new process recorded a skip for a date the earlier one downloaded
C7_Witness ==
    /\ prog = "acq"
    /\ run >= 2
    /\ call_base = 0
    /\ \E i \in 1 .. Len(statuses) :
          /\ statuses[i].date \in prior_success
          /\ statuses[i].status = "skipped_existing"

\* the step sent the report request for current_date and got status code
ReportAnswered(code) ==
    /\ AtDate
    /\ Len(netlog') > Len(netlog)
    /\ netlog'[Len(netlog')] =
          Request(FormatDateStr(current_date), "report", "api", code)

\* C8: when the report request of a date is answered 404, the date gets
\* exactly one failure entry and one failed row with the reason
\* "No data available (404)", no file is written, and the loop goes on with
\* the next date; another error status gets another reason.
C8_NotFoundRecorded ==
    [][/\ ReportAnswered(HTTP_STATUS_NOT_FOUND) =>
            /\ statuses' = Append(statuses,
                  StatusEntry(FormatDateStr(current_date), "failed",
                              Reason("No data available (404)", 0), NoPath))
            /\ failed_dates' = Append(failed_dates,
                  [date |-> FormatDateStr(current_date),
                   reason |-> Reason("No data available (404)", 0)])
            /\ out_fs' = out_fs
            /\ current_date' = NextDay(current_date)
            /\ pc' = "loop"
       /\ \A code \in OtherHttpCodes :
            ReportAnswered(code) =>
                /\ OneRowAppended
                /\ statuses'[Len(statuses')].status = "failed"
                /\ statuses'[Len(statuses')].reason # Reason("No data available (404)", 0)]_vars

\* a date answered 404 was recorded and the next date was processed
C8_Witness ==
    /\ prog = "acq"
    /\ \E i \in 1 .. Len(statuses) :
          /\ i < Len(statuses)
          /\ statuses[i].status = "failed"
          /\ statuses[i].reason = Reason("No data available (404)", 0)
          /\ \E j \in 1 .. Len(netlog) :
                netlog[j] = Request(statuses[i].date, "report", "api", HTTP_STATUS_NOT_FOUND)

\* C9: processing a weekday that the holiday oracle flags as a public
\* holiday sends no request and appends a skip row.
C9_HolidaySkipped ==
    [][(/\ AtDate
        /\ Weekday(current_date) \notin {5, 6}
        /\ is_public_holiday(load_holidays_missing, current_date)) =>
          /\ netlog' = netlog
          /\ OneRowAppended
          /\ statuses'[Len(statuses')].status \in {"skipped_weekend", "skipped_existing"}]_vars

\* a second run with force disabled, after a first run with force disabled
\* that went through every file
SecondRunDone ==
    /\ prog = "conv"
    /\ run >= 2
    /\ conv_pc = "done"
    /\ ~force
    /\ ~prev_force
    /\ Cardinality(prev_records) = Cardinality(raw_root_files)

\* the status the previous run recorded for file f
PrevStatus(f) == (CHOOSE r \in prev_records : r.file = f).status

\* C10 as stated: after the second run the curated files are those of the
\* first run, byte for byte, and every record of the second run is Skipped.
C10_AllSkippedOnRerun ==
    SecondRunDone =>
        /\ curated_fs = prev_curated
        /\ \A i \in 1 .. Len(records) : records[i].status = "Skipped"

\* C10: a run with force disabled after a run with force disabled leaves
\* every curated file of the first run byte-identical, and records as Skipped
\* every file the first run recorded as Success or Skipped; only a file the
\* first run recorded as Error is attempted again.
C10_RerunKeepsCurated ==
    (prog = "conv" /\ run >= 2 /\ ~force /\ ~prev_force) =>
        /\ \A p \in DOMAIN prev_curated :
              p \in DOMAIN curated_fs /\ curated_fs[p] = prev_curated[p]
        /\ \A i \in 1 .. Len(records) :
              (\E r \in prev_records :
                  /\ r.file = records[i].file
                  /\ r.status \in {"Success", "Skipped"})
              => records[i].status = "Skipped"

\* the second run skipped a converted file and failed again on a file that
\* failed before
C10_Witness ==
    /\ SecondRunDone
    /\ \E i, k \in 1 .. Len(records) :
          /\ PrevStatus(records[i].file) = "Success"
          /\ records[i].status = "Skipped"
          /\ PrevStatus(records[k].file) = "Error"
          /\ records[k].status = "Error"

\* the loop of _build_daily_parquet is about to process a file whose name
\* yields a date, with force disabled and the curated file of that date
\* in place
AtFileWithCurated ==
    /\ prog = "conv"
    /\ conv_pc = "loop"
    /\ conv_idx <= Len(input_csv_files)
    /\ ~force
    /\ TradeDates[input_csv_files[conv_idx].stem] # NoDateValue
    /\ CuratedPath(TradeDates[input_csv_files[conv_idx].stem]) \in DOMAIN curated_fs

\* the step appended exactly one record, for the file at conv_idx, with status st
OneRecordAppended(st) ==
    /\ Len(records') = Len(records) + 1
    /\ SubSeq(records', 1, Len(records)) = records
    /\ records'[Len(records')].file = input_csv_files[conv_idx]
    /\ records'[Len(records')].status = st

\* the step neither parsed a CSV nor wrote a parquet, and left every curated
\* file as it was
NoParseNoWrite ==
    /\ "read_csv" \notin last_ops'
    /\ "to_parquet" \notin last_ops'
    /\ curated_fs' = curated_fs

\* C11 as stated: with the curated file in place and force disabled, the
\* file gets a Skipped record, nothing is parsed or written and the curated
\* file keeps its bytes.
C11_ExistingCuratedSkipped ==
    [][AtFileWithCurated => (OneRecordAppended("Skipped") /\ NoParseNoWrite)]_vars

\* the step had to make the raw copy and shutil.copy2 raised
RawCopyFailed ==
    LET f == input_csv_files[conv_idx]
        copied_input_path == RawPath(TradeDates[f.stem], f)
    IN  /\ copied_input_path \notin DOMAIN raw_fs
        /\ \/ copied_input_path \notin DOMAIN raw_fs'
           \/ raw_fs'[copied_input_path] # Content("csv", f.data)

\* C11: with the curated file in place and force disabled, nothing is parsed
\* or written and the curated file keeps its bytes; the file gets a Skipped
\* record, except that it gets an Error record when its raw copy was missing
\* and copying it failed.
C11_ExistingCuratedKept ==
    [][AtFileWithCurated =>
          /\ NoParseNoWrite
          /\ IF RawCopyFailed
                THEN OneRecordAppended("Error")
                ELSE OneRecordAppended("Skipped")]_vars

\* a file was copied and then skipped because the curated file of its date,
\* written from another file, was in place
C11_Witness ==
    /\ prog = "conv"
    /\ ~force
    /\ Len(records) = 2
    /\ conv_idx = 3
    /\ records[1].status = "Success"
    /\ records[2].status = "Skipped"
    /\ records[2].output = records[1].output
    /\ last_ops = {"copy2"}
    /\ curated_fs[records[1].output] = Content("parquet", records[1].file.data)

\* ---------------------------------------------------------------------------
\* C12: when read_csv or to_parquet raises for a file, the file gets one Error
\* record and the loop goes on; and if the write was the call that failed, the
\* curated destination does not exist afterwards unless it existed with valid
\* (parquet) content before, which it then still has.
ConvertRaised ==
    /\ prog = "conv" /\ conv_pc = "loop" /\ conv_idx <= Len(input_csv_files)
    /\ "read_csv" \in last_ops'
    /\ Len(records') = Len(records) + 1
    /\ records'[Len(records')].status = "Error"

DestinationClean(before, after, path) ==
    \/ path \notin DOMAIN after
    \/ /\ path \in DOMAIN before
       /\ before[path].fmt = "parquet"
       /\ after[path] = before[path]

C12_NoPartialCurated ==
    [][ConvertRaised =>
         /\ conv_pc' = "loop"
         /\ conv_idx' = conv_idx + 1
         /\ OneRecordAppended("Error")
         /\ ("to_parquet" \in last_ops' =>
                DestinationClean(curated_fs, curated_fs',
                    CuratedPath(TradeDates[input_csv_files[conv_idx].stem])))]_vars

\* ---------------------------------------------------------------------------
\* C13: serializing a ledger refuses to overwrite: when the status file of
\* the run already exists at the moment the ledger is written, nothing is
\* written, the existing file is unchanged and the run goes on to its end,
\* for ProcessingTracker.save_to_csv and for StatusLogger.write_csv alike.
SaveToCsvOnExisting ==
    /\ prog = "conv" /\ conv_pc = "loop" /\ conv_pc' = "done"
    /\ status_csv # <<>>

WriteCsvOnExisting ==
    /\ prog = "acq" /\ pc = "loop" /\ pc' = "done"
    /\ <<"download_status", now>> \in DOMAIN log_fs

C13_SerializeKeepsExisting ==
    [][/\ SaveToCsvOnExisting => status_csv' = status_csv
       /\ WriteCsvOnExisting => log_fs' = log_fs]_vars

\* the half of C13 about ProcessingTracker.save_to_csv, on its own
C13_SaveToCsvKeepsExisting ==
    [][SaveToCsvOnExisting => status_csv' = status_csv]_vars

\* ---------------------------------------------------------------------------
\* Holiday oracle: the last call was is_public_holiday, and what it answered.
Asked == prog = "hol" /\ hol_op = "query"
AskedPair == <<last_query.date.month, last_query.date.day>>
FixedPairs == {<<1, 26>>, <<5, 1>>, <<8, 15>>, <<10, 2>>, <<12, 25>>}

\* C14: the oracle is in recurring mode exactly when the file it last loaded
\* was absent or unreadable, and in that mode is_public_holiday(d) is true if
\* and only if (d.month, d.day) is one of (1,26), (5,1), (8,15), (10,2),
\* (12,25), whatever the year of d.
C14_RecurringIffPair ==
    Asked =>
        /\ manager.using_recurring <=> last_load.content.state # "ok"
        /\ manager.using_recurring =>
              (last_query.answer <=> AskedPair \in FixedPairs)

\* Republic Day 2031 is a holiday, and 27 January 2019 is not one, with an
\* unreadable file
C14_Witness ==
    /\ Asked
    /\ manager.using_recurring
    /\ last_load.content = UnreadableFile
    /\ last_query.date = [year |-> 2031, month |-> 1, day |-> 26]
    /\ last_query.answer

\* C15: with a holiday file loaded, is_public_holiday(d) is true exactly when
\* d is one of the loaded dates or (d.month, d.day) is a recurring pair; a
\* recurring pair that the file does not list is a holiday all the same.
C15_LoadedOrPair ==
    (Asked /\ ~manager.using_recurring) =>
        (last_query.answer <=>
            \/ last_query.date \in manager.loaded_holidays
            \/ AskedPair \in FixedPairs)

\* Labour Day 2024, asked as a datetime, is a holiday although the loaded
\* file lists 14 March 2024 only
C15_Witness ==
    /\ Asked
    /\ ~manager.using_recurring
    /\ manager.loaded_holidays = {[year |-> 2024, month |-> 3, day |-> 14]}
    /\ last_query.date = [year |-> 2024, month |-> 5, day |-> 1]
    /\ last_query.is_datetime
    /\ last_query.answer

\* C16: load_holidays(f) leaves a state that depends on the content of f
\* alone: the mode and the dates are the ones of f as it is now; loading the
\* same unchanged file again changes nothing; and a date held before the load
\* is held after it only if f lists it.
DatesWritten(file) ==
    {StrptimeYmd(Strip(file.lines[i])) : i \in 1 .. Len(file.lines)} \ {NoDateValue}

StateFor(file) ==
    IF file.state = "ok"
        THEN HolidayManager(FALSE, DatesWritten(file))
        ELSE HolidayManager(TRUE, FixedPairs)

SameManager(a, b) ==
    /\ a.using_recurring = b.using_recurring
    /\ a.loaded_holidays = b.loaded_holidays

Loads ==
    /\ prog = "hol"
    /\ \/ hol_op' = "load"
       \/ hol_op' \in {"query", "get_holidays", "contains", "iter", "len"} /\ never_loaded

C16_ReloadReplaces ==
    [][Loads =>
         /\ last_load'.content = holiday_files[last_load'.file]
         /\ SameManager(manager', StateFor(last_load'.content))
         /\ (~never_loaded /\ last_load' = last_load) => SameManager(manager', manager)
         /\ (~manager.using_recurring /\ ~manager'.using_recurring) =>
               \A d \in manager.loaded_holidays :
                   d \in manager'.loaded_holidays => d \in DatesWritten(last_load'.content)]_vars

\* a file of three dates was loaded, then a file with one of them: the
\* other two are gone
C16_Witness ==
    /\ prog = "hol"
    /\ hol_op = "load"
    /\ ~prev_manager.using_recurring
    /\ Cardinality(prev_manager.loaded_holidays) = 3
    /\ last_load.file = "other.csv"
    /\ manager = HolidayManager(FALSE, {[year |-> 2024, month |-> 3, day |-> 14]})

\* ---------------------------------------------------------------------------
\* C17: a stem that ends in eight digits DDMMYYYY which are a calendar date
\* gives exactly that date; a stem whose last eight characters are not such
\* a date (a character that is no digit, a day or month out of range, a day
\* the month does not have, fewer than eight characters) gives None.
AllDigits(s) == \A i \in 1 .. Len(s) : IsDigit(s[i])

TwoDigits(s, i) == DigitVal(s[i]) * 10 + DigitVal(s[i + 1])

FourDigits(s, i) == TwoDigits(s, i) * 100 + TwoDigits(s, i + 2)

\* the date the eight characters s encode as DDMMYYYY, or NoDateValue
EncodedDate(s) ==
    IF Len(s) # 8 \/ ~AllDigits(s) THEN NoDateValue
    ELSE IF FourDigits(s, 5) < 1 THEN NoDateValue
    ELSE IF TwoDigits(s, 3) < 1 \/ TwoDigits(s, 3) > 12 THEN NoDateValue
    ELSE IF TwoDigits(s, 1) < 1
            \/ TwoDigits(s, 1) > DaysInMonth(FourDigits(s, 5), TwoDigits(s, 3))
        THEN NoDateValue
    ELSE [year |-> FourDigits(s, 5), month |-> TwoDigits(s, 3), day |-> TwoDigits(s, 1)]

Tail8(stem) ==
    IF Len(stem) < 8 THEN <<>> ELSE SubSeq(stem, Len(stem) - 7, Len(stem))

C17_NameDateExact ==
    (prog = "name" /\ name_pc = "returned") =>
        returned_date = EncodedDate(Tail8(filepath_stem))

\* the half of C17 about well-formed names, on its own
C17_WellFormedNamesExact ==
    (prog = "name" /\ name_pc = "returned"
        /\ EncodedDate(Tail8(filepath_stem)) # NoDateValue) =>
        returned_date = EncodedDate(Tail8(filepath_stem))

\* ---------------------------------------------------------------------------
\* C18: the outcome recorded for a date is the first that applies of weekend
\* skip, existing skip, fetch error, extract error, success.  A weekend date
\* is a weekend skip even with its file in place; a weekday with its file in
\* place is an existing skip and nothing is asked of the remote; a fetch
\* that failed is recorded as a fetch error with no file written; an extract
\* error and a success only follow a fetch that was answered 200.
FetchReasons ==
    {"Network error", "No data available (404)", "HTTP",
     "Invalid response format (not JSON or ZIP)", "No data in response",
     "exception: TypeError", "No zip file in response", "Zip download HTTP"}

ExtractReasons == {"Invalid zip file", "exception: extract"}

FileInPlace(date) ==
    \/ existing_dir /\ ExistingFile(date) \in existing_fs
    \/ ExpectedCsv(date) \in DOMAIN out_fs

NewRow == statuses'[Len(statuses')]

LastAnswer == netlog'[Len(netlog')].answer

C18_Precedence ==
    [][(AtDate /\ Len(statuses') > Len(statuses)) =>
         /\ OneRowAppended
         /\ IF Weekday(current_date) \in {5, 6}
            THEN NewRow.status = "skipped_weekend" /\ NoNetworkNoFiles
            ELSE IF FileInPlace(current_date)
            THEN NewRow.status = "skipped_existing" /\ NoNetworkNoFiles
            ELSE /\ Len(netlog') > Len(netlog)
                 /\ netlog'[Len(netlog')].kind \in {"report", "zip"}
                 /\ NewRow.status \in {"failed", "success"}
                 /\ LastAnswer # HTTP_STATUS_OK =>
                       /\ NewRow.status = "failed"
                       /\ NewRow.reason.text \in FetchReasons
                 /\ (NewRow.status = "failed" /\ NewRow.reason.text \in FetchReasons) =>
                       out_fs' = out_fs
                 /\ NewRow.status = "failed" =>
                       /\ NewRow.reason.text \in FetchReasons \cup ExtractReasons
                       /\ ExpectedCsv(current_date) \notin DOMAIN out_fs'
                 /\ (NewRow.status = "failed" /\ NewRow.reason.text \in ExtractReasons) =>
                       LastAnswer = HTTP_STATUS_OK
                 /\ NewRow.status = "success" =>
                       /\ LastAnswer = HTTP_STATUS_OK
                       /\ ExpectedCsv(current_date) \in DOMAIN out_fs']_vars

\* one run met a Saturday whose file is in the existing directory (a weekend
\* skip), a weekday whose file is there (an existing skip), and a weekday
\* whose fetch failed
C18_Witness ==
    /\ prog = "acq"
    /\ pc = "done"
    /\ Len(statuses) = 3
    /\ ExistingFile(AddDays(start_date, 2)) \in existing_fs
    /\ statuses[1].status = "failed"
    /\ statuses[1].reason.text \in FetchReasons
    /\ statuses[2].status = "skipped_existing"
    /\ statuses[3].status = "skipped_weekend"

\* ---------------------------------------------------------------------------
\* C19: over a run, the session cookie is requested only right before a
\* fetch that is made, and only when more than 300 seconds have passed since
\* the previous request for it: a run that skips every date asks for no
\* cookie, every cookie request is followed at once by the report request of
\* a date, and two cookie requests are never less than 300 seconds apart.
AllSkipped ==
    \A i \in 1 .. Len(CurrentRows) : StartsWithSkipped(CurrentRows[i].status)

CookieRequests == {i \in 1 .. Len(netlog) : netlog[i].kind = "cookie"}

C19_CookieOnlyForFetch ==
    (prog = "acq" /\ pc = "done") =>
        /\ AllSkipped => CookieRequests = {}
        /\ \A i \in CookieRequests :
              /\ i < Len(netlog)
              /\ netlog[i + 1].kind = "report"
        /\ \A j \in 2 .. Len(cookie_times) :
              cookie_times[j] - cookie_times[j - 1] >= COOKIE_REFRESH_INTERVAL

\* ---------------------------------------------------------------------------
\* C20: the loop sleeps its fixed pause after a date if and only if the row
\* recorded for that date is success or failed; it never sleeps after a
\* weekend skip or an already-exists skip (and no time passes there), and the
\* pause is the same two seconds whatever the reason of the failure.
C20_PauseIffFetched ==
    [][AtDate =>
         /\ last_pause' \in {0, 2}
         /\ last_pause' = 2 <=>
               /\ Len(statuses') > Len(statuses)
               /\ NewRow.status \in {"success", "failed"}
         /\ (Len(statuses') > Len(statuses) /\ StartsWithSkipped(NewRow.status)) =>
               /\ last_pause' = 0
               /\ now' = now
         /\ last_pause' = 2 => now' >= now + 2]_vars

\* two dates failed for different reasons, a 404 and an invalid archive, and
\* the second has just been followed by the pause
C20_Witness ==
    /\ prog = "acq"
    /\ pc = "loop"
    /\ Len(statuses) = 2
    /\ statuses[1].status = "failed"
    /\ statuses[1].reason.text = "No data available (404)"
    /\ statuses[2].status = "failed"
    /\ statuses[2].reason.text = "Invalid zip file"
    /\ last_pause = 2

\* ---------------------------------------------------------------------------
\* C21: a date whose archive cannot be extracted gets a failed row with the
\* invalid-archive reason, and the archive written for it,
\* bhavcopy_YYYYMMDD.zip, is gone from the month folder afterwards; no date
\* that ended in an error leaves its archive behind.
C21_NoArchiveLeft ==
    [][(AtDate /\ Len(statuses') > Len(statuses) /\ NewRow.status = "failed") =>
         /\ ZipPath(current_date) \notin DOMAIN out_fs'
         /\ NewRow.reason.text \in ExtractReasons =>
               NewRow.reason.text = "Invalid zip file"]_vars

\* the half of C21 about zipfile.BadZipFile, on its own
C21_BadZipCleaned ==
    [][(AtDate /\ Len(statuses') > Len(statuses)
        /\ NewRow.status = "failed" /\ NewRow.reason.text = "Invalid zip file") =>
         /\ ZipPath(current_date) \notin DOMAIN out_fs'
         /\ ExpectedCsv(current_date) \notin DOMAIN out_fs']_vars

\* ---------------------------------------------------------------------------
\* C22: a report answered 200 is taken as the archive itself if and only if
\* its content type declares zip or its body starts with PK, and then no
\* second request is sent.  Otherwise the body is read as a list: the first
\* entry whose "file" ends in .zip is fetched with one second request, later
\* entries never; an unparseable body, an empty list, a list without such an
\* entry and a second request not answered 200 each record their own reason.
Answered200 ==
    /\ AtDate
    /\ ~last_response'.exc
    /\ last_response'.status = HTTP_STATUS_OK

DirectArchive(r) == r.ctype_zip \/ r.body \in {"zip_ok", "zip_nocsv", "zip_bad", "zip_enc"}

AllDicts(data) == \A i \in 1 .. Len(data) : data[i].kind = "dict"

ZipEntries(data) ==
    {i \in 1 .. Len(data) : data[i].has_file /\ data[i].ext = ".zip"}

\* the requests this step sent after the report request
SentAfterReport ==
    SelectSeq(SubSeq(netlog', Len(netlog) + 1, Len(netlog')),
              LAMBDA q : q.kind = "zip")

FailedWith(text) ==
    /\ OneRowAppended
    /\ NewRow.status = "failed"
    /\ NewRow.reason.text = text
    /\ out_fs' = out_fs

C22_ResponseInterpretation ==
    [][Answered200 =>
         LET r == last_response' IN
         IF DirectArchive(r)
         THEN /\ SentAfterReport = <<>>
              /\ Len(statuses') > Len(statuses) =>
                    \/ NewRow.status = "success"
                    \/ NewRow.status = "failed" /\ NewRow.reason.text \in ExtractReasons
         ELSE IF r.body # "json"
         THEN SentAfterReport = <<>>
              /\ FailedWith("Invalid response format (not JSON or ZIP)")
         ELSE IF r.json = <<>>
         THEN SentAfterReport = <<>> /\ FailedWith("No data in response")
         ELSE IF ~AllDicts(r.json)
         THEN SentAfterReport = <<>>
         ELSE IF ZipEntries(r.json) = {}
         THEN SentAfterReport = <<>> /\ FailedWith("No zip file in response")
         ELSE /\ Len(SentAfterReport) = 1
              /\ \E i \in ZipEntries(r.json) :
                    /\ \A j \in ZipEntries(r.json) : i <= j
                    /\ SentAfterReport[1].target = r.json[i].stem
              /\ SentAfterReport[1].answer \notin {0, HTTP_STATUS_OK} =>
                    /\ FailedWith("Zip download HTTP")
                    /\ NewRow.reason.code = SentAfterReport[1].answer]_vars

\* a list naming a .csv and two archives was answered, the first archive was
\* asked for and the second request was answered 404
C22_Witness ==
    /\ prog = "acq"
    /\ pc = "loop"
    /\ last_response.body = "json"
    /\ Len(last_response.json) = 3
    /\ netlog[Len(netlog)].kind = "zip"
    /\ netlog[Len(netlog)].target = "/zipA"
    /\ netlog[Len(netlog)].answer = HTTP_STATUS_NOT_FOUND
    /\ statuses[Len(statuses)].reason = Reason("Zip download HTTP", HTTP_STATUS_NOT_FOUND)

\* ---------------------------------------------------------------------------
\* the loop of _build_daily_parquet is about to process a file whose name
\* does not end in eight digits that encode a calendar date
AtFileWithoutDate ==
    /\ prog = "conv"
    /\ conv_pc = "loop"
    /\ conv_idx <= Len(input_csv_files)
    /\ EncodedDate(Tail8(input_csv_files[conv_idx].stem)) = NoDateValue

\* C23: when the date cannot be parsed from a file's name, the file gets
\* exactly one Error record and the loop moves on; no raw copy is made, no raw
\* or curated directory is created and no curated file is written.
C23_NoDateOnlyError ==
    [][AtFileWithoutDate =>
          /\ OneRecordAppended("Error")
          /\ stats' = [stats EXCEPT !.Error = stats.Error + 1]
          /\ raw_fs' = raw_fs
          /\ curated_fs' = curated_fs
          /\ out_dirs' = out_dirs
          /\ last_ops' = {}
          /\ conv_pc' = "loop"
          /\ conv_idx' = conv_idx + 1]_vars

\* a file without a date was processed after a file that was converted: it
\* has the one Error record, and the directories and files are those of the
\* converted file alone
C23_Witness ==
    /\ prog = "conv"
    /\ conv_pc = "loop"
    /\ Len(records) = 2
    /\ conv_idx = 3
    /\ records[1].status = "Success"
    /\ records[2].status = "Error"
    /\ records[2].file.stem = StemNoDate
    /\ records[2].copied = NoPath
    /\ Cardinality(DOMAIN raw_fs) = 1
    /\ Cardinality(DOMAIN curated_fs) = 1
    /\ Cardinality(out_dirs) = 2
    /\ last_ops = {}

\* ---------------------------------------------------------------------------
\* the loop of _build_daily_parquet is about to process a file whose name
\* yields a date
AtFileWithDate ==
    /\ prog = "conv"
    /\ conv_pc = "loop"
    /\ conv_idx <= Len(input_csv_files)
    /\ TradeDates[input_csv_files[conv_idx].stem] # NoDateValue

\* raw/cm/year=YYYY/month=MM/<original-name> of the file at conv_idx
RawDestination ==
    RawPath(TradeDates[input_csv_files[conv_idx].stem], input_csv_files[conv_idx])

\* every raw file other than the destination of the file at conv_idx is as it
\* was, and no other raw file appeared
OtherRawUntouched ==
    /\ DOMAIN raw_fs' \subseteq DOMAIN raw_fs \cup {RawDestination}
    /\ \A p \in DOMAIN raw_fs \ {RawDestination} :
          p \in DOMAIN raw_fs' /\ raw_fs'[p] = raw_fs[p]

\* C24: the raw input is copied to its destination only if the destination
\* does not exist or force is set (and then it is, unless creating the raw
\* directory raised); a successful copy leaves the input's bytes there; an
\* existing raw copy is left untouched when force is disabled; if the copy
\* raises, the file ends with one Error record and neither the curated
\* directory nor the curated file is attempted.
C24_RawCopy ==
    [][AtFileWithDate =>
          /\ OtherRawUntouched
          /\ "copy2" \in last_ops' => (force \/ RawDestination \notin DOMAIN raw_fs)
          /\ ((force \/ RawDestination \notin DOMAIN raw_fs) /\ conv_pc' = "loop")
                => "copy2" \in last_ops'
          /\ (~force /\ RawDestination \in DOMAIN raw_fs) => raw_fs' = raw_fs
          /\ ("copy2" \in last_ops' /\ "copy2_raised" \notin last_ops') =>
                /\ RawDestination \in DOMAIN raw_fs'
                /\ raw_fs'[RawDestination] =
                      Content("csv", input_csv_files[conv_idx].data)
          /\ "copy2_raised" \in last_ops' =>
                /\ OneRecordAppended("Error")
                /\ NoParseNoWrite
                /\ out_dirs' \subseteq
                      out_dirs \cup {RawDir(TradeDates[input_csv_files[conv_idx].stem])}
                /\ conv_pc' = "loop"
                /\ conv_idx' = conv_idx + 1]_vars

\* with force disabled, a second file of the same name found its raw
\* destination in place and was not copied, and the destination still holds
\* the first file's bytes; before that, both cases of a copy happened in the
\* run (the first file was copied)
C24_Witness ==
    /\ prog = "conv"
    /\ ~force
    /\ Len(records) = 2
    /\ conv_idx = 3
    /\ records[1].file.stem = records[2].file.stem
    /\ records[1].file.data # records[2].file.data
    /\ records[1].status = "Success"
    /\ "copy2" \notin last_ops
    /\ raw_fs[records[1].copied] = Content("csv", records[1].file.data)

\* the copy of a file raised: the file has an Error record and nothing of
\* its date is in the curated tree
C24_WitnessCopyRaised ==
    /\ prog = "conv"
    /\ Len(records) = 1
    /\ conv_idx = 2
    /\ records[1].status = "Error"
    /\ last_ops = {"copy2", "copy2_raised"}
    /\ curated_fs = EmptyFs

\* ---------------------------------------------------------------------------
\* the date the line s writes as YYYY-MM-DD (four digits, "-", two digits,
\* "-", two digits, a day the calendar has), or NoDateValue
IsoEncodedDate(s) ==
    IF Len(s) # 10 THEN NoDateValue
    ELSE IF s[5] # "-" \/ s[8] # "-" THEN NoDateValue
    ELSE IF ~AllDigits(SubSeq(s, 1, 4) \o SubSeq(s, 6, 7) \o SubSeq(s, 9, 10))
        THEN NoDateValue
    ELSE IF FourDigits(s, 1) < 1 THEN NoDateValue
    ELSE IF TwoDigits(s, 6) < 1 \/ TwoDigits(s, 6) > 12 THEN NoDateValue
    ELSE IF TwoDigits(s, 9) < 1
            \/ TwoDigits(s, 9) > DaysInMonth(FourDigits(s, 1), TwoDigits(s, 6))
        THEN NoDateValue
    ELSE [year |-> FourDigits(s, 1), month |-> TwoDigits(s, 6), day |-> TwoDigits(s, 9)]

\* the dates of the well-formed lines of a file, surrounding white space and
\* the line end apart
WellFormedDates(file) ==
    {IsoEncodedDate(Strip(file.lines[i])) : i \in 1 .. Len(file.lines)} \ {NoDateValue}

\* C25: a load (explicit, or the one the first query makes) of a file that
\* exists and can be read leaves the oracle in authoritative mode holding
\* exactly the dates of the well-formed YYYY-MM-DD lines of the file, every
\* other line skipped; a load of a file that is absent or cannot be read
\* leaves it in recurring mode holding the fixed (month, day) table.
C25_LoadOutcome ==
    [][Loads =>
         IF last_load'.content.state = "ok"
            THEN /\ ~manager'.using_recurring
                 /\ manager'.loaded_holidays = WellFormedDates(last_load'.content)
            ELSE /\ manager'.using_recurring
                 /\ manager'.loaded_holidays = FixedPairs]_vars

\* what does hold of a load: the mode is as C25 says, a malformed or blank
\* line never aborts the load or loses the other lines, every well-formed
\* line is held, and whatever is held was written on some line with a
\* four-digit year, a month and a day
C25_LoadOutcomeLenient ==
    [][Loads =>
         IF last_load'.content.state = "ok"
            THEN /\ ~manager'.using_recurring
                 /\ WellFormedDates(last_load'.content) \subseteq manager'.loaded_holidays
                 /\ manager'.loaded_holidays \subseteq DatesWritten(last_load'.content)
            ELSE /\ manager'.using_recurring
                 /\ manager'.loaded_holidays = FixedPairs]_vars

\* ---------------------------------------------------------------------------
\* a call that reads the oracle: is_public_holiday, get_holidays, containment,
\* iteration, length
ReadOps == {"query", "get_holidays", "contains", "iter", "len"}

\* one representation is active in m: the (month, day) table under the
\* recurring flag, a set of exact dates without it
OneRepresentation(m) ==
    IF m.using_recurring
        THEN m.loaded_holidays = FixedPairs
        ELSE \A d \in m.loaded_holidays : DOMAIN d = {"year", "month", "day"}

\* C26: once the oracle has been used, the recurring flag is set iff it holds
\* the (month, day) table and clear iff it holds a set of exact dates; a
\* reading call on an oracle that has been used leaves the flag and the
\* collection as they were, whatever happened to the files meanwhile; the
\* flag or the collection change only in a load_holidays call or in the load
\* the first reading call makes.
C26_ModeInvariant ==
    [][prog = "hol" =>
         /\ ~never_loaded' => OneRepresentation(manager')
         /\ (hol_op' \in ReadOps /\ ~never_loaded) => SameManager(manager', manager)
         /\ ~SameManager(manager', manager) => (hol_op' = "load" \/ never_loaded)]_vars

\* the oracle loaded dates from the default file, the file was then removed,
\* and a length call after that left the oracle authoritative with its dates
C26_Witness ==
    /\ prog = "hol"
    /\ hol_op = "len"
    /\ last_load.file = DEFAULT_HOLIDAY_FILE
    /\ last_load.content.state = "ok"
    /\ holiday_files[DEFAULT_HOLIDAY_FILE] = MissingFile
    /\ ~manager.using_recurring
    /\ Cardinality(manager.loaded_holidays) = 3

\* ---------------------------------------------------------------------------
\* the command line is one main must give up on: a date is not written as
\* YYYY-MM-DD, or the start is after the end, or the end is after today, or
\* the start is before 1 February 2010
SetupFailure ==
    LET start == IsoEncodedDate(cli_args.start_date)
        end == IsoEncodedDate(cli_args.end_date)
    IN  \/ start = NoDateValue
        \/ end = NoDateValue
        \/ ~DateLE(start, end)
        \/ ~DateLE(end, today)
        \/ ~DateLE([year |-> 2010, month |-> 2, day |-> 1], start)

MainRan == prog = "acq" /\ main_pc \in {"returned", "running"}

\* main returned and nothing was done: no output directory, no downloader,
\* no request, no row, no status file
NothingDone ==
    /\ main_pc = "returned"
    /\ made = {}
    /\ pc = "idle"
    /\ netlog = <<>>
    /\ statuses = <<>>
    /\ log_fs = EmptyFs
    /\ log_writes = <<>>
    /\ out_fs = EmptyFs

\* C27: when a date of the command line is not in YYYY-MM-DD format, or the
\* start date is after the end date, or the end date is in the future, or the
\* start date is before the minimum, main returns before any date is
\* processed: no downloader is created, no request is made and no status
\* file is written.
C27_SetupFailuresFatal ==
    (MainRan /\ SetupFailure) => NothingDone

\* a date that strptime takes although it is not written as YYYY-MM-DD
LooselyWritten(s) == IsoEncodedDate(s) = NoDateValue /\ StrptimeYmd(s) # NoDateValue

\* C27 apart from loosely written dates, and its converse: every other
\* command line with a setup failure makes main return with nothing done,
\* and a command line without one is run
C27_SetupFailuresFatalStrict ==
    (MainRan /\ ~LooselyWritten(cli_args.start_date)
             /\ ~LooselyWritten(cli_args.end_date)) =>
        IF SetupFailure THEN NothingDone ELSE main_pc = "running"

\* ---------------------------------------------------------------------------
\* the step is the end of a call of download_range that got through its loop
EndsRun == prog = "acq" /\ pc = "loop" /\ pc' = "done"

\* a row of the current call records a failure
FailureRecorded == \E i \in 1 .. Len(CurrentRows) : CurrentRows[i].status = "failed"

\* the writers of StatusLogger the step called, in order
NewWrites == SubSeq(log_writes', Len(log_writes) + 1, Len(log_writes'))

FailedJsonFiles(fs) == {name \in DOMAIN fs : name[1] = "failed_downloads"}

\* C28: at the end of a run the failed-dates JSON is written if and only if
\* a failure was recorded in the run, and then after the status CSV; a run of
\* successes and skips alone writes the status CSV and no failed-dates file;
\* nothing is written to the log directory before the end of the run.
C28_FailedJsonIffFailure ==
    [][prog = "acq" =>
         /\ (Len(log_writes') > Len(log_writes)) => EndsRun
         /\ EndsRun =>
               /\ NewWrites = IF FailureRecorded
                                 THEN <<"write_csv", "write_failed_json">>
                                 ELSE <<"write_csv">>
               /\ <<"download_status", now>> \in DOMAIN log_fs'
               /\ FailedJsonFiles(log_fs') =
                     IF FailureRecorded THEN {<<"failed_downloads", now>>} ELSE {}
               /\ FailureRecorded =>
                     log_fs'[<<"failed_downloads", now>>] = failed_dates]_vars

\* a run of two dates ended with one success and one failure: the status CSV
\* and then the failed-dates JSON were written
C28_Witness ==
    /\ prog = "acq"
    /\ pc = "done"
    /\ Len(statuses) = 2
    /\ statuses[1].status = "success"
    /\ statuses[2].status = "failed"
    /\ log_writes = <<"write_csv", "write_failed_json">>
    /\ Len(log_fs[<<"failed_downloads", now>>]) = 1

\* a run of a success and a weekend skip ended: only the status CSV is there
C28_WitnessNoFailure ==
    /\ prog = "acq"
    /\ pc = "done"
    /\ Len(statuses) = 2
    /\ statuses[1].status = "success"
    /\ statuses[2].status = "skipped_weekend"
    /\ log_writes = <<"write_csv">>
    /\ DOMAIN log_fs = {<<"download_status", now>>}

\* ---------------------------------------------------------------------------
\* a later run with force disabled is about to process a file that the
\* previous run recorded as Error after its raw copy was in place, that is,
\* in read_csv or to_parquet
AtFileThatFailedToConvert ==
    /\ prog = "conv"
    /\ run >= 2
    /\ conv_pc = "loop"
    /\ conv_idx <= Len(input_csv_files)
    /\ ~force
    /\ \E r \in prev_records :
          /\ r.file = input_csv_files[conv_idx]
          /\ r.status = "Error"
          /\ r.copied # NoPath

\* the step parsed the file again and did not record it as Skipped
AttemptedAgain ==
    /\ "read_csv" \in last_ops'
    /\ OneRecordAppended("Success") \/ OneRecordAppended("Error")

\* C29: a file that ended with an Error record from the parse/write stage in
\* one run is parsed again, and not recorded as Skipped, in the next run with
\* force disabled.
C29_ErrorsRetried ==
    [][AtFileThatFailedToConvert => AttemptedAgain]_vars

\* C29 where no failed write left anything behind: every curated file is a
\* complete parquet file
C29_ErrorsRetriedNoPartial ==
    [][(AtFileThatFailedToConvert
        /\ \A p \in DOMAIN curated_fs : curated_fs[p].fmt = "parquet")
          => AttemptedAgain]_vars

\* what does hold: the file is parsed again unless a curated file of its date
\* is in place, whoever wrote it
C29_ErrorsRetriedUnlessCurated ==
    [][AtFileThatFailedToConvert =>
          IF CuratedPath(TradeDates[input_csv_files[conv_idx].stem]) \in DOMAIN curated_fs
             THEN OneRecordAppended("Skipped") /\ NoParseNoWrite
             ELSE AttemptedAgain]_vars

\* ---------------------------------------------------------------------------
\* records i and k of the current run, i before k, are of files whose names
\* give the same date
SameDateRecords(i, k) ==
    /\ i < k
    /\ records[i].file_date # NoDateValue
    /\ records[i].file_date = records[k].file_date

\* record i is the first of its date in the current run
FirstOfDate(i) == \A h \in 1 .. (i - 1) : records[h].file_date # records[i].file_date

InRunWithoutForce == prog = "conv" /\ conv_pc \in {"loop", "done", "aborted"} /\ ~force

\* C30 as stated: in a run with force disabled, of the files of one date at
\* most one is recorded as Success; the curated file of the date, when the
\* run wrote it, holds the rows of the first of them, and every later one is
\* recorded as Skipped.
C30_FirstWinsLaterSkipped ==
    InRunWithoutForce =>
        \A i, k \in 1 .. Len(records) :
            (SameDateRecords(i, k) /\ FirstOfDate(i)) =>
                /\ ~(records[i].status = "Success" /\ records[k].status = "Success")
                /\ records[k].status = "Skipped"
                /\ (CuratedPath(records[i].file_date) \in
                        (DOMAIN curated_fs) \ (DOMAIN prev_curated))
                      => curated_fs[CuratedPath(records[i].file_date)] =
                            Content("parquet", records[i].file.data)

\* C30: in a run with force disabled, of the files of one date at most one is
\* recorded as Success, namely the first whose parse and write complete, every
\* earlier one being an Error; the curated file then holds its rows for the
\* rest of the run, and every later file of the date is recorded as Skipped,
\* or as Error when its raw copy failed, and is not parsed.
C30_OneSuccessPerDate ==
    InRunWithoutForce =>
        \A i, k \in 1 .. Len(records) :
            SameDateRecords(i, k) =>
                /\ ~(records[i].status = "Success" /\ records[k].status = "Success")
                /\ records[k].status = "Success" => records[i].status = "Error"
                /\ records[i].status = "Success" =>
                      /\ curated_fs[CuratedPath(records[i].file_date)] =
                            Content("parquet", records[i].file.data)
                      /\ \/ records[k].status = "Skipped"
                         \/ records[k].status = "Error" /\ records[k].copied = NoPath
                      /\ (k = Len(records) /\ conv_pc = "loop") =>
                            "read_csv" \notin last_ops

\* of two files of one date the first failed in to_parquet and the second
\* was converted: the curated file holds the rows of the second
C30_Witness ==
    /\ InRunWithoutForce
    /\ Len(records) = 2
    /\ SameDateRecords(1, 2)
    /\ records[1].status = "Error"
    /\ records[1].copied # NoPath
    /\ records[2].status = "Success"
    /\ records[1].file.data # records[2].file.data
    /\ curated_fs[CuratedPath(records[2].file_date)] =
          Content("parquet", records[2].file.data)

\* of two files of one date the first was converted and the second skipped:
\* the curated file holds the rows of the first
C30_WitnessFirstWins ==
    /\ InRunWithoutForce
    /\ run = 1
    /\ Len(records) = 2
    /\ SameDateRecords(1, 2)
    /\ records[1].status = "Success"
    /\ records[2].status = "Skipped"
    /\ records[1].file.data # records[2].file.data
    /\ curated_fs[CuratedPath(records[1].file_date)] =
          Content("parquet", records[1].file.data)

\* ---------------------------------------------------------------------------
\* the positions of the entries of failed_dates for the date string d
FailureEntries(d) == {i \in 1 .. Len(failed_dates) : failed_dates[i].date = d}

\* the reason text download_range falls back on when it finds no entry
NoUnknownError ==
    \A k \in 1 .. Len(statuses) : statuses[k].reason.text # "Unknown error"

\* C31: in a call of download_range on a fresh downloader, failed_dates has
\* exactly one entry for each date whose row is 'failed', with the reason of
\* that row, and no entry for a date whose row is anything else or that has
\* no row; the reason 'Unknown error' is never recorded.
C31_FailuresAgreeWithLedger ==
    (prog = "acq" /\ pc \in {"loop", "done", "aborted"}) =>
        /\ \A k \in 1 .. Len(statuses) :
              IF statuses[k].status = "failed"
                 THEN /\ Cardinality(FailureEntries(statuses[k].date)) = 1
                      /\ \A i \in FailureEntries(statuses[k].date) :
                            failed_dates[i].reason = statuses[k].reason
                 ELSE FailureEntries(statuses[k].date) = {}
        /\ \A i \in 1 .. Len(failed_dates) :
              \E k \in 1 .. Len(statuses) :
                  statuses[k].date = failed_dates[i].date /\ statuses[k].status = "failed"
        /\ NoUnknownError

\* a call over three dates ended with two failures of different reasons and
\* a weekend skip: failed_dates holds the two entries, in order, with the
\* reasons of the rows
C31_Witness ==
    /\ prog = "acq"
    /\ pc = "done"
    /\ Len(statuses) = 3
    /\ statuses[1].status = "failed"
    /\ statuses[2].status = "failed"
    /\ statuses[3].status = "skipped_weekend"
    /\ statuses[1].reason # statuses[2].reason
    /\ Len(failed_dates) = 2
    /\ failed_dates[1] = [date |-> statuses[1].date, reason |-> statuses[1].reason]
    /\ failed_dates[2] = [date |-> statuses[2].date, reason |-> statuses[2].reason]

\* ---------------------------------------------------------------------------
\* the step fetched and extracted the file of current_date: the file was not
\* there before and is there after, and the date got its row
ExtractedInThisCall ==
    /\ AtDate
    /\ ExpectedCsv(current_date) \notin DOMAIN out_fs
    /\ ExpectedCsv(current_date) \in DOMAIN out_fs'
    /\ Len(statuses') = Len(statuses) + 1

\* C32: whatever earlier calls of download_range on the same downloader
\* recorded, a date whose download and extraction completed in the current
\* call gets the status 'success' and the path of its file.
C32_NoStaleOutcome ==
    [][ExtractedInThisCall =>
          /\ NewRow.status = "success"
          /\ NewRow.file_path = ExpectedCsv(current_date)]_vars

\* the part of C32 that holds: a date that is fetched without an entry of an
\* earlier call in failed_dates is recorded as 'success'
C32_NoStaleOutcomeWithoutEntry ==
    [][(ExtractedInThisCall
        /\ ~HasFailure(failed_dates, FormatDateStr(current_date)))
          => NewRow.status = "success"]_vars

=============================================================================
